---- MODULE Spec2Model ----
(***************************************************************************)
(* doc-to-md: reconciliation of a Mistral OCR response into one markdown   *)
(* document.  Strings are sequences of one-character strings, so that the  *)
(* regular-expression rewrite, the replacement-string expansion, the       *)
(* base64 decoding and the page join are computed character by character   *)
(* as the TypeScript does.                                                 *)
(***************************************************************************)
EXTENDS Integers, Sequences, FiniteSets, TLC

(***************************************************************************)
(* Generic sequence helpers                                                *)
(***************************************************************************)
RECURSIVE Flatten(_)
Flatten(ss) == IF ss = << >> THEN << >> ELSE Head(ss) \o Flatten(Tail(ss))

Range(s) == { s[i] : i \in 1..Len(s) }

\* s.startsWith(p)
StartsWith(s, p) == Len(s) >= Len(p) /\ SubSeq(s, 1, Len(p)) = p

\* first index (1-based) at which the literal p occurs in s at or after from; 0 if none
RECURSIVE IndexOfFrom(_, _, _)
IndexOfFrom(s, p, from) ==
  IF from + Len(p) - 1 > Len(s) THEN 0
  ELSE IF (p = << >> \/ s[from] = p[1]) /\ SubSeq(s, from, from + Len(p) - 1) = p
    THEN from
  ELSE IndexOfFrom(s, p, from + 1)

\* s.includes(p)
Includes(s, p) == IndexOfFrom(s, p, 1) # 0

\* number of (possibly overlapping) positions at which the literal p occurs in s
CountOccurrences(s, p) ==
  Cardinality({ i \in 1..Len(s) : i + Len(p) - 1 <= Len(s)
                                   /\ SubSeq(s, i, i + Len(p) - 1) = p })

(***************************************************************************)
(* Characters                                                              *)
(***************************************************************************)
\* UTF-16 code units of the characters image ids are made of in this model
CodeTable ==
  << <<"a", 97>>, <<"b", 98>>, <<"c", 99>>, <<"i", 105>>, <<"x", 120>>,
     <<"0", 48>>, <<"1", 49>>, <<".", 46>>, <<"$", 36>>, <<"&", 38>>,
     <<"'", 39>>, <<"-", 45>> >>

CharCode(c) == (CHOOSE p \in Range(CodeTable) : p[1] = c)[2]

HexDigits ==
  <<"0","1","2","3","4","5","6","7","8","9","a","b","c","d","e","f">>

\* two lower-case hex digits of a byte
HexByte(n) == << HexDigits[(n \div 16) + 1], HexDigits[(n % 16) + 1] >>

\* RegExp line terminators: '.' matches none of them
LineTerminators == { "\n", "\r" }

(***************************************************************************)
(* String.prototype.replace: the replacement-string patterns               *)
(***************************************************************************)
\* GetSubstitution for a pattern without capture groups: $$, $&, $` and $'
\* are expanded; a '$' followed by anything else stays a '$'.
RECURSIVE GetSubstitution(_, _, _, _)
GetSubstitution(repl, matched, before, after) ==
  IF repl = << >> THEN << >>
  ELSE IF Head(repl) = "$" /\ Len(repl) >= 2 /\ repl[2] \in {"$", "&", "`", "'"}
    THEN (CASE repl[2] = "$" -> <<"$">>
            [] repl[2] = "&" -> matched
            [] repl[2] = "`" -> before
            [] repl[2] = "'" -> after)
         \o GetSubstitution(SubSeq(repl, 3, Len(repl)), matched, before, after)
  ELSE <<Head(repl)>> \o GetSubstitution(Tail(repl), matched, before, after)

(***************************************************************************)
(* Regular expressions, as far as the patterns built here use them         *)
(***************************************************************************)
\* the characters of the class /[.*+?^${}()|[\]\\]/
RegExpMeta ==
  { ".", "*", "+", "?", "^", "$", "{", "}", "(", ")", "|", "[", "]", "\\" }

\* a variant that escapes nothing
EscapeNothing(imgId) == imgId

\* imgId.replace(/[.*+?^${}()|[\]\\]/g, '\\$&')
EscapeRegExp(imgId) ==
  Flatten([ i \in 1..Len(imgId) |->
              IF imgId[i] \in RegExpMeta THEN <<"\\", imgId[i]>> ELSE <<imgId[i]>> ])

\* new RegExp(source): a backslash makes the next character a literal, '.'
\* is any character but a line terminator, '$' and '^' are the anchors.
RECURSIVE CompileRegExp(_)
CompileRegExp(source) ==
  IF source = << >> THEN << >>
  ELSE IF Head(source) = "\\" /\ Len(source) >= 2
    THEN << [k |-> "lit", c |-> source[2]] >>
         \o CompileRegExp(SubSeq(source, 3, Len(source)))
  ELSE IF Head(source) = "." THEN << [k |-> "any", c |-> "."] >> \o CompileRegExp(Tail(source))
  ELSE IF Head(source) = "$" THEN << [k |-> "end", c |-> "$"] >> \o CompileRegExp(Tail(source))
  ELSE IF Head(source) = "^" THEN << [k |-> "start", c |-> "^"] >> \o CompileRegExp(Tail(source))
  ELSE << [k |-> "lit", c |-> Head(source)] >> \o CompileRegExp(Tail(source))

\* the index after a match of atoms that starts at index i of s; 0 if none
RECURSIVE MatchAt(_, _, _)
MatchAt(atoms, s, i) ==
  IF atoms = << >> THEN i
  ELSE LET a == Head(atoms) IN
    CASE a.k = "end"   -> IF i = Len(s) + 1 THEN MatchAt(Tail(atoms), s, i) ELSE 0
      [] a.k = "start" -> IF i = 1 THEN MatchAt(Tail(atoms), s, i) ELSE 0
      [] a.k = "any"   -> IF i <= Len(s) /\ s[i] \notin LineTerminators
                            THEN MatchAt(Tail(atoms), s, i + 1) ELSE 0
      [] a.k = "lit"   -> IF i <= Len(s) /\ s[i] = a.c
                            THEN MatchAt(Tail(atoms), s, i + 1) ELSE 0

\* s.replace(new RegExp(source, 'g'), repl): the matches are taken left to
\* right in s without overlap, each replaced by the expansion of repl.
RECURSIVE RegExpReplaceFrom(_, _, _, _)
RegExpReplaceFrom(s, atoms, repl, i) ==
  IF i > Len(s) THEN << >>
  ELSE LET e == MatchAt(atoms, s, i) IN
    IF e > i
      THEN GetSubstitution(repl, SubSeq(s, i, e - 1), SubSeq(s, 1, i - 1),
                           SubSeq(s, e, Len(s)))
           \o RegExpReplaceFrom(s, atoms, repl, e)
      ELSE <<s[i]>> \o RegExpReplaceFrom(s, atoms, repl, i + 1)

RegExpReplaceAll(s, source, repl) ==
  RegExpReplaceFrom(s, CompileRegExp(source), repl, 1)

(***************************************************************************)
(* Link mode: the names and the rewrite of one image                       *)
(* (MistralService.replaceImagesInMarkdown, the body of its loop)          *)
(***************************************************************************)
\* crypto.createHash('md5').update(imgId).digest('hex').  The digest is not
\* computed: its stand-in is the hex encoding of the id's characters, which
\* like md5 is made of hex digits only and depends on nothing but the id.
md5hex(data) == Flatten([ i \in 1..Len(data) |-> HexByte(CharCode(data[i])) ])

\* a variant whose digest also depends on the payload
hashOfIdAndPayload(imgId, base64Data) ==
  md5hex(imgId) \o HexByte(Len(base64Data))

\* const hash = ...update(imgId)...: what the loop body hashes, of its two
\* loop variables [imgId, base64Data]
hash(imgId, base64Data) == md5hex(imgId)

\* `image-${hash}.png`
imageFileName(h) == <<"i","m","a","g","e","-">> \o h \o <<".","p","n","g">>

\* a variant that leaves the directory out of the path of the image
imagePathNoDir(imagesDir, fileName) == <<fileName>>

\* a directory is the sequence of its path components; path.join appends
imagePath(imagesDir, fileName) == Append(imagesDir, fileName)

\* path.basename(imagesDir)
basename(dir) == dir[Len(dir)]

relativeImagePath(imagesDir, fileName) ==
  basename(imagesDir) \o <<"/">> \o fileName

\* the text ![alt](target)
ImageRef(alt, target) == <<"!","[">> \o alt \o <<"]","(">> \o target \o <<")">>

\* a variant that matches ](id) after any alt text
patternAnyAlt(imgId) ==
  <<"\\","]","\\","(">> \o EscapeRegExp(imgId) \o <<"\\",")">>

\* a variant that matches ![id and no more
patternPrefix(imgId) == <<"!","\\","[">> \o EscapeRegExp(imgId)

\* `!\\[${escapedImgId}\\]\\(${escapedImgId}\\)`
pattern(imgId) ==
  LET escapedImgId == EscapeRegExp(imgId) IN
    <<"!","\\","[">> \o escapedImgId \o <<"\\","]","\\","(">> \o escapedImgId
      \o <<"\\",")">>

\* result.replace(new RegExp(pattern, 'g'), `![${imgId}](${relativeImagePath})`)
ReplaceReferences(result, imgId, relPath) ==
  RegExpReplaceAll(result, pattern(imgId), ImageRef(imgId, relPath))

(***************************************************************************)
(* Buffer.from(text, 'base64')                                             *)
(***************************************************************************)
B64Alphabet ==
  <<"A","B","C","D","E","F","G","H","I","J","K","L","M","N","O","P",
    "Q","R","S","T","U","V","W","X","Y","Z","a","b","c","d","e","f",
    "g","h","i","j","k","l","m","n","o","p","q","r","s","t","u","v",
    "w","x","y","z","0","1","2","3","4","5","6","7","8","9","+","/">>

B64Value(c) == (CHOOSE i \in 1..Len(B64Alphabet) : B64Alphabet[i] = c) - 1

\* the sextets of the text: decoding stops at the first '=', characters
\* outside the alphabet are skipped
RECURSIVE Sextets(_)
Sextets(text) ==
  IF text = << >> \/ Head(text) = "=" THEN << >>
  ELSE IF Head(text) \in Range(B64Alphabet)
    THEN <<B64Value(Head(text))>> \o Sextets(Tail(text))
  ELSE Sextets(Tail(text))

\* four sextets give three bytes, a rest of three gives two, of two gives one
RECURSIVE BytesOf(_)
BytesOf(v) ==
  IF Len(v) < 2 THEN << >>
  ELSE LET b1 == v[1] * 4 + v[2] \div 16 IN
    IF Len(v) = 2 THEN <<b1>>
    ELSE LET b2 == (v[2] % 16) * 16 + v[3] \div 4 IN
      IF Len(v) = 3 THEN <<b1, b2>>
      ELSE <<b1, b2, (v[3] % 4) * 64 + v[4]>> \o BytesOf(SubSeq(v, 5, Len(v)))

BufferFromBase64(text) == BytesOf(Sextets(text))

\* text.split(sep) for a one-character separator
RECURSIVE Split(_, _)
Split(text, sep) ==
  LET i == IndexOfFrom(text, <<sep>>, 1) IN
    IF i = 0 THEN <<text>>
    ELSE <<SubSeq(text, 1, i - 1)>> \o Split(SubSeq(text, i + 1, Len(text)), sep)

DataPrefix == <<"d","a","t","a",":">>

\* base64Data.split(',')[1] is undefined when the data: payload has no comma,
\* and Buffer.from(undefined, 'base64') throws a TypeError
DecodeThrows(base64Data) ==
  StartsWith(base64Data, DataPrefix) /\ Len(Split(base64Data, ",")) < 2

\* a variant that decodes every payload whole
DecodeWhole(base64Data) == BufferFromBase64(base64Data)

\* the imageBuffer of the loop body (lines 167-173)
imageBuffer(base64Data) ==
  IF StartsWith(base64Data, DataPrefix)
    THEN BufferFromBase64(Split(base64Data, ",")[2])
    ELSE BufferFromBase64(base64Data)

(***************************************************************************)
(* processFile: the image dictionary of a page (lines 113-121)             *)
(***************************************************************************)
\* imageData[img.id] = img.imageBase64 for the images with a truthy id and a
\* truthy payload.  The dictionary is the sequence of its entries in the
\* order the keys were created; a key set again keeps its place and takes
\* the new value.  (No id of this model is an integer-like key, for which
\* Object.entries would use the numeric order.)
RECURSIVE SetKey(_, _, _)
SetKey(dict, key, value) ==
  IF dict = << >> THEN << <<key, value>> >>
  ELSE IF Head(dict)[1] = key THEN << <<key, value>> >> \o Tail(dict)
  ELSE <<Head(dict)>> \o SetKey(Tail(dict), key, value)

RECURSIVE BuildImageData(_, _)
BuildImageData(images, dict) ==
  IF images = << >> THEN dict
  ELSE LET img == Head(images) IN
    BuildImageData(Tail(images),
                   IF img.id # << >> /\ img.imageBase64 # << >>
                     THEN SetKey(dict, img.id, img.imageBase64)
                     ELSE dict)

Keys(dict) == { dict[i][1] : i \in 1..Len(dict) }

(***************************************************************************)
(* processFile: the join of the pages (line 132)                           *)
(***************************************************************************)
Separator == <<"\n", "\n">>

\* a variant that keeps the empty results
FilterNothing(markdowns) == markdowns

\* processedMarkdowns.filter(Boolean): the empty string is the only falsy one
FilterBoolean(markdowns) == SelectSeq(markdowns, LAMBDA m : m # << >>)

\* a variant that puts nothing between the parts
JoinNoSep(parts, sep) == Flatten(parts)

\* array.join(sep)
RECURSIVE Join(_, _)
Join(parts, sep) ==
  IF parts = << >> THEN << >>
  ELSE IF Len(parts) = 1 THEN parts[1]
  ELSE parts[1] \o sep \o Join(Tail(parts), sep)

(***************************************************************************)
(* Embed mode: the replaceImagesInMarkdown helper of the earlier           *)
(* MistralService.processFile, which puts the payload into the markdown    *)
(***************************************************************************)
PngDataUriPrefix ==
  DataPrefix \o <<"i","m","a","g","e","/","p","n","g",";","b","a","s","e","6","4",",">>

\* a variant that puts the prefix before every payload
formattedAlwaysPrefixed(base64Str) == PngDataUriPrefix \o base64Str

\* base64Str.startsWith('data:') ? base64Str : `data:image/png;base64,${base64Str}`
formattedBase64(base64Str) ==
  IF StartsWith(base64Str, DataPrefix) THEN base64Str
  ELSE PngDataUriPrefix \o base64Str

\* the six literal shapes tried for one image name
patterns(imgName) ==
  << ImageRef(imgName, imgName),
     <<"!","\\","[">> \o imgName \o <<"\\","]","\\","(">> \o imgName \o <<"\\",")">>,
     <<"\\","!","\\","[">> \o imgName \o <<"\\","]","\\","(">> \o imgName \o <<"\\",")">>,
     ImageRef(<<"I","m","a","g","e"," ">> \o imgName, imgName),
     ImageRef(<<"F","i","g","u","r","e"," ">> \o imgName, imgName),
     ImageRef(<< >>, imgName) >>

\* s.replace(p, repl) with a string p: the first occurrence only, repl expanded
StringReplaceFirst(s, p, repl) ==
  LET i == IndexOfFrom(s, p, 1) IN
    IF i = 0 THEN s
    ELSE LET before == SubSeq(s, 1, i - 1)
             after  == SubSeq(s, i + Len(p), Len(s)) IN
      before \o GetSubstitution(repl, p, before, after) \o after

\* patterns.forEach: if (result.includes(pattern)) result = result.replace(...)
RECURSIVE TryPatterns(_, _, _)
TryPatterns(result, ps, repl) ==
  IF ps = << >> THEN result
  ELSE TryPatterns(IF Includes(result, Head(ps))
                     THEN StringReplaceFirst(result, Head(ps), repl)
                     ELSE result,
                   Tail(ps), repl)

\* a match of /!\[(.*?)\]\(<imgName>\)/ that starts at index i of s: the length
\* of the shortest alt text (no line terminator in it) after which the rest
\* of the pattern matches, or -1.  The image name goes into the pattern as
\* it is, so its '.' and '$' act as regular-expression syntax.
RECURSIVE LazyAltLen(_, _, _, _)
LazyAltLen(tailAtoms, s, i, k) ==
  IF MatchAt(tailAtoms, s, i + 2 + k) # 0 THEN k
  ELSE IF i + 2 + k > Len(s) THEN -1
  ELSE IF s[i + 2 + k] \in LineTerminators THEN -1
  ELSE LazyAltLen(tailAtoms, s, i, k + 1)

imgRegexTail(imgName) ==
  CompileRegExp(<<"\\","]","\\","(">> \o imgName \o <<"\\",")">>)

\* result.replace(imgRegex, (match, altText) => `![${altText}](${formattedBase64})`)
RECURSIVE ImgRegexReplaceFrom(_, _, _, _)
ImgRegexReplaceFrom(s, tailAtoms, uri, i) ==
  IF i > Len(s) THEN << >>
  ELSE IF s[i] = "!" /\ i + 1 <= Len(s) /\ s[i + 1] = "["
    THEN LET k == LazyAltLen(tailAtoms, s, i, 0) IN
      IF k >= 0
        THEN ImageRef(SubSeq(s, i + 2, i + 1 + k), uri)
               \o ImgRegexReplaceFrom(s, tailAtoms, uri,
                                       MatchAt(tailAtoms, s, i + 2 + k))
        ELSE <<s[i]>> \o ImgRegexReplaceFrom(s, tailAtoms, uri, i + 1)
  ELSE <<s[i]>> \o ImgRegexReplaceFrom(s, tailAtoms, uri, i + 1)

\* the body of the embed-mode loop for one entry [imgName, base64Str]
EmbedReplace(result, imgName, base64Str) ==
  LET uri == formattedBase64(base64Str)
      afterPatterns == TryPatterns(result, patterns(imgName), ImageRef(imgName, uri)) IN
    ImgRegexReplaceFrom(afterPatterns, imgRegexTail(imgName), uri, 1)

(***************************************************************************)
(* Bounds and inputs                                                       *)
(***************************************************************************)
MaxPages  == 2   \* pages of an OCR response
MaxSegs   == 2   \* pieces a page markdown is put together from
MaxImages == 2   \* entries of an image dictionary given to the rewrite
MaxLoggerCalls == 3   \* calls made on the logger

\* image ids: a plain one, one that is a prefix of another, one that is a
\* regular expression matching another, one that is a replacement pattern
I1        == <<"i","1">>
I10       == <<"i","1","0">>
Abc       == <<"a","b","c">>
ADotC     == <<"a",".","c">>
DollarAmp == <<"$","&">>
ImageIds  == { I1, I10, Abc, ADotC, DollarAmp }

\* payloads: "QUJD" and "QQ==" are the bytes 65 66 67 and 65
P1    == <<"Q","U","J","D">>
P2    == <<"Q","Q","=","=">>
PData == PngDataUriPrefix \o P1
PBad  == DataPrefix \o P1

Image(id, payload) == [id |-> id, imageBase64 |-> payload]

\* bounded sequences over a set
SeqUpTo(S, n) == UNION { [1..k -> S] : k \in 0..n }

\* the pieces of a page markdown: a placeholder of each id, text
Segments ==
  { ImageRef(id, id) : id \in ImageIds } \cup { <<"T">> }

Markdowns == { Flatten(segs) : segs \in SeqUpTo(Segments, MaxSegs) }

\* the entries an image dictionary is made of, and the dictionaries: the
\* keys of a dictionary are distinct
EntrySet ==
  { <<I1, P1>>, <<I10, P2>>, <<Abc, P1>>, <<Abc, PData>>, <<ADotC, P1>>,
    <<DollarAmp, P1>> }

ImageDatas ==
  { d \in SeqUpTo(EntrySet, MaxImages) :
      \A i, j \in 1..Len(d) : i # j => d[i][1] # d[j][1] }

\* the markdowns and dictionaries given to the embed-mode helper
EmbedSegments ==
  { ImageRef(I1, I1), ImageRef(Abc, Abc), ImageRef(DollarAmp, DollarAmp),
    ImageRef(<< >>, I1), ImageRef(<<"I","m","a","g","e"," ">> \o I1, I1), <<"T">> }

EmbedMarkdowns == { Flatten(segs) : segs \in SeqUpTo(EmbedSegments, MaxSegs) }

EmbedEntrySet ==
  { <<I1, P1>>, <<I1, PData>>, <<Abc, PData>>, <<ADotC, P1>>, <<DollarAmp, P1>> }

EmbedImageDatas ==
  { d \in SeqUpTo(EmbedEntrySet, MaxImages) :
      \A i, j \in 1..Len(d) : i # j => d[i][1] # d[j][1] }

\* the markdowns and dictionaries with references of the shapes
\* ![id](id), ![Image id](id), ![Figure id](id) and ![](id)
ShapeSegments ==
  { ImageRef(I1, I1),
    ImageRef(<<"I","m","a","g","e"," ">> \o I1, I1),
    ImageRef(<<"F","i","g","u","r","e"," ">> \o I1, I1),
    ImageRef(<< >>, I1),
    ImageRef(<< >>, I10),
    ImageRef(DollarAmp, DollarAmp),
    <<"T">> }

ShapeMarkdowns == { Flatten(segs) : segs \in SeqUpTo(ShapeSegments, MaxSegs) }

ShapeImageDatas ==
  { d \in SeqUpTo({ <<I1, P1>>, <<I10, P2>>, <<DollarAmp, P1>> }, MaxImages) :
      \A i, j \in 1..Len(d) : i # j => d[i][1] # d[j][1] }

\* the images directory: <dirname(output)>/<input name>-images
DirDoc   == << <<"o","u","t">>, <<"d","-","i","m","a","g","e","s">> >>
DirOther == << <<"t","m","p">>, <<"e","-","i","m","a","g","e","s">> >>
ImagesDirs == { DirDoc, DirOther }

\* pages of an OCR response.  markdownType and imagesType tell a missing
\* field (undefined) from a present one.
Page(md, imgs) ==
  [markdownType |-> "string", markdown |-> md, imagesType |-> "array", images |-> imgs]

PageSet ==
  { [markdownType |-> "undefined", markdown |-> << >>, imagesType |-> "array",
     images |-> << Image(I1, P1) >>],
    Page(<< >>, << Image(I10, P1) >>),
    [markdownType |-> "string", markdown |-> <<"T","\n","\n","T">>,
     imagesType |-> "undefined", images |-> << >>],
    Page(ImageRef(I1, I1) \o <<"T">>, << Image(I1, P1), Image(I10, P2) >>),
    Page(ImageRef(I1, I1), << Image(I1, P2) >>),
    Page(ImageRef(Abc, Abc) \o ImageRef(I1, I1), << Image(Abc, PBad), Image(I1, P1) >>),
    Page(<<"T">> \o ImageRef(I10, I10),
         << Image(<< >>, P1), Image(I10, << >>), Image(I10, PData) >>),
    Page(<<"T">>, << Image(Abc, P1) >>) }

\* what ocr.process may resolve with: null, an object without pages, with
\* pages null, with pages that is no array, or with an array of pages
Response(t, pt, ps) == [type |-> t, pagesType |-> pt, pages |-> ps]

Responses ==
  { Response("null", "undefined", << >>),
    Response("object", "undefined", << >>),
    Response("object", "null", << >>),
    Response("object", "string", << >>) }
    \cup { Response("object", "array", ps) : ps \in SeqUpTo(PageSet, MaxPages) }

\* ocr.process has not resolved
NoResponse == Response("none", "undefined", << >>)

\* the responses of the documents of two calls that run at the same time:
\* both hold the image i1, with different payloads
ConcurrentResponses ==
  { Response("object", "undefined", << >>),
    Response("object", "array",
             << Page(ImageRef(I1, I1) \o <<"T">>, << Image(I1, P1), Image(I10, P2) >>) >>),
    Response("object", "array", << Page(ImageRef(I1, I1), << Image(I1, P2) >>) >>),
    Response("object", "array",
             << Page(ImageRef(I1, I1), << Image(I1, P2) >>),
                [markdownType |-> "undefined", markdown |-> << >>, imagesType |-> "array",
                 images |-> << Image(I1, P1) >>] >>) }

\* the responses ocr.process may resolve with, given the second call
ResponsesFor(second) ==
  IF second.pc = "none" THEN Responses ELSE ConcurrentResponses

(***************************************************************************)
(* State                                                                   *)
(***************************************************************************)
VARIABLES
  pc,                 \* where the call is
  caller,             \* "processFile", or "direct" for a call of the rewrite alone
  mode,               \* "link" or "embed"
  run,                \* 1, or 2 when the same response is processed again
  imagesDir,          \* the imagesDir argument
  ocrResponse,        \* what ocr.process resolved with
  pageIdx,            \* the page pages.map is at
  processedMarkdowns, \* the results of the pages mapped so far
  markdown,           \* the markdown argument of the rewrite
  entries,            \* Object.entries(imageData) of the rewrite
  entryIdx,           \* the entry the loop is at
  result,             \* the result variable of the rewrite
  files,              \* the file system: path -> bytes
  returned,           \* the markdown the call resolved with
  thrown,             \* the message of the error the call rejected with
  calls,              \* the API calls made, in order
  log,                \* one record for each iteration of the rewrite loop
  firstRun            \* the markdown and the log of run 1, once run 2 starts

VARIABLES
  cliPc,              \* where the command, processFiles or translateFiles is
  command,            \* "process" or "translate", "none" when no command runs
  apiKeySet,          \* process.env.MISTRAL_API_KEY is set
  input,              \* options.input
  output,             \* options.output
  language,           \* options.language
  inputKind,          \* what is at the input path: "missing", "file", "directory"
  imagesDirExists,    \* <dirname(input)>/<input name>-images exists
  translatedContent,  \* what translateContent resolved with
  fsCalls,            \* the calls made on fs and on the service, in order
  outFiles,           \* the files written with fs.writeFile: path -> content
  rejected,           \* the message processFiles or translateFiles rejected with
  exitCode,           \* the code given to process.exit, -1 when it was not called
  filePath            \* the filePath argument of processFile

VARIABLES
  logLevel,           \* LoggerService.logLevel
  emitted             \* one record for each call made on the logger, in order

VARIABLES
  other               \* a second processFile call, suspended at an await

\* the state of one processFile call
svcVars ==
  << pc, caller, mode, run, imagesDir, ocrResponse, pageIdx, processedMarkdowns,
     markdown, entries, entryIdx, result, files, returned, thrown, calls, log,
     firstRun >>

cliVars ==
  << cliPc, command, apiKeySet, input, output, language, inputKind,
     imagesDirExists, translatedContent, fsCalls, outFiles, rejected, exitCode,
     filePath >>

loggerVars == << logLevel, emitted >>

\* what a processFile call on its own neither reads nor writes
ext == << cliVars, loggerVars, other >>

vars == << svcVars, ext >>

NoFiles == [ p \in {} |-> << >> ]

NoFirstRun == [markdown |-> << >>, log |-> << >>]

ErrorPrefix == "Failed to process PDF with Mistral OCR API: "

\* LoggerService.LogLevel
LogLevel == [DEBUG |-> 0, INFO |-> 1, WARN |-> 2, ERROR |-> 3, NONE |-> 4]

\* private logLevel: number = LoggerService.LogLevel.INFO
LoggerInit ==
  /\ logLevel = LogLevel.INFO
  /\ emitted = << >>

\* no second call
NoOther == [pc |-> "none"]

\* the file processFile is called on when it is called on its own
PdfPath == << <<"i","n">>, <<"d",".","p","d","f">> >>

\* no command runs
NoCommand ==
  /\ cliPc = "idle"
  /\ command = "none"
  /\ apiKeySet = TRUE
  /\ input = << >>
  /\ output = << >>
  /\ language = << >>
  /\ inputKind = "file"
  /\ imagesDirExists = FALSE
  /\ translatedContent = << >>
  /\ fsCalls = << >>
  /\ outFiles = NoFiles
  /\ rejected = << >>
  /\ exitCode = -1

\* one processFile call, or one call of the rewrite, and nothing around it
ExtIdle ==
  /\ NoCommand
  /\ filePath = PdfPath
  /\ LoggerInit
  /\ other = NoOther

InitCommon ==
  /\ run = 1
  /\ files = NoFiles
  /\ returned = << >>
  /\ thrown = << >>
  /\ calls = << >>
  /\ log = << >>
  /\ firstRun = NoFirstRun

\* processFile(filePath, imagesDir) has been called on a PDF
Init ==
  /\ InitCommon
  /\ ExtIdle
  /\ pc = "readFile"
  /\ caller = "processFile"
  /\ mode = "link"
  /\ imagesDir \in ImagesDirs
  /\ ocrResponse = NoResponse
  /\ pageIdx = 0
  /\ processedMarkdowns = << >>
  /\ markdown = << >>
  /\ entries = << >>
  /\ entryIdx = 0
  /\ result = << >>

\* replaceImagesInMarkdown(markdown, imageData, imagesDir) has been called
InitRewrite ==
  /\ InitCommon
  /\ ExtIdle
  /\ pc = "loop"
  /\ caller = "direct"
  /\ mode = "link"
  /\ imagesDir = DirDoc
  /\ ocrResponse = NoResponse
  /\ pageIdx = 0
  /\ processedMarkdowns = << >>
  /\ markdown \in Markdowns
  /\ entries \in ImageDatas
  /\ entryIdx = 1
  /\ result = markdown

\* replaceImagesInMarkdown has been called on a markdown that holds
\* references of several shapes
InitRewriteShapes ==
  /\ InitCommon
  /\ ExtIdle
  /\ pc = "loop"
  /\ caller = "direct"
  /\ mode = "link"
  /\ imagesDir = DirDoc
  /\ ocrResponse = NoResponse
  /\ pageIdx = 0
  /\ processedMarkdowns = << >>
  /\ markdown \in ShapeMarkdowns
  /\ entries \in ShapeImageDatas
  /\ entryIdx = 1
  /\ result = markdown

\* the embed-mode helper replaceImagesInMarkdown(markdownStr, imagesDict)
InitEmbed ==
  /\ InitCommon
  /\ ExtIdle
  /\ pc = "loop"
  /\ caller = "direct"
  /\ mode = "embed"
  /\ imagesDir = DirDoc
  /\ ocrResponse = NoResponse
  /\ pageIdx = 0
  /\ processedMarkdowns = << >>
  /\ markdown \in EmbedMarkdowns
  /\ entries \in EmbedImageDatas
  /\ entryIdx = 1
  /\ result = markdown

(***************************************************************************)
(* processFile (link mode)                                                 *)
(***************************************************************************)
\* the catch of processFile: the error is rethrown with the prefix
Throw(message) ==
  /\ pc' = "failed"
  /\ thrown' = <<ErrorPrefix, message>>

\* a variant that makes a rejected call again
AwaitRetry(here, next, name, okVars) ==
  /\ pc = here
  /\ calls' = Append(calls, name)
  /\ \E ok \in BOOLEAN :
       IF ok THEN pc' = next /\ thrown' = thrown /\ okVars
       ELSE pc' = here /\ thrown' = thrown /\ okVars

\* one awaited call: it resolves and the next one follows, or it rejects
Await(here, next, name, okVars) ==
  /\ pc = here
  /\ calls' = Append(calls, name)
  /\ \E ok \in BOOLEAN :
       IF ok THEN pc' = next /\ thrown' = thrown /\ okVars
       ELSE Throw(name \o " failed") /\ okVars

ApiUnchanged ==
  UNCHANGED << caller, mode, run, imagesDir, pageIdx, processedMarkdowns, markdown,
               entries, entryIdx, result, files, returned, log, firstRun,
               ext >>

\* await fs.readFile(filePath)
ReadFile ==
  /\ Await("readFile", "upload", "fs.readFile", UNCHANGED ocrResponse)
  /\ ApiUnchanged

\* await this.client.files.upload(...)
FilesUpload ==
  /\ Await("upload", "getSignedUrl", "files.upload", UNCHANGED ocrResponse)
  /\ ApiUnchanged

\* await this.client.files.getSignedUrl(...)
FilesGetSignedUrl ==
  /\ Await("getSignedUrl", "ocr", "files.getSignedUrl", UNCHANGED ocrResponse)
  /\ ApiUnchanged

\* await this.client.ocr.process(...): it rejects, or resolves with a response
OcrProcess ==
  /\ pc = "ocr"
  /\ calls' = Append(calls, "ocr.process")
  /\ \E ok \in BOOLEAN :
       IF ok
         THEN /\ ocrResponse' \in ResponsesFor(other)
              /\ pc' = "validate"
              /\ thrown' = thrown
         ELSE /\ Throw("ocr.process failed")
              /\ UNCHANGED ocrResponse
  /\ ApiUnchanged

\* !ocrResponse || !ocrResponse.pages || !Array.isArray(ocrResponse.pages)
InvalidResponse(r) ==
  \/ r.type = "null"
  \/ r.pagesType \in {"undefined", "null"}
  \/ r.pagesType # "array"

\* the check of the response (lines 99-105)
Validate ==
  /\ pc = "validate"
  /\ IF InvalidResponse(ocrResponse)
       THEN /\ Throw("Invalid OCR response from Mistral API")
            /\ UNCHANGED << pageIdx, processedMarkdowns >>
       ELSE /\ pc' = "map"
            /\ pageIdx' = 1
            /\ processedMarkdowns' = << >>
            /\ thrown' = thrown
  /\ UNCHANGED << caller, mode, run, imagesDir, ocrResponse, markdown, entries,
                  entryIdx, result, files, returned, calls, log, firstRun,
                  ext >>

\* !page.markdown
NoMarkdown(page) == page.markdownType = "undefined" \/ page.markdown = << >>

\* the map callback on a page without markdown: return ''
SkipPage ==
  /\ pc = "map"
  /\ pageIdx <= Len(ocrResponse.pages)
  /\ NoMarkdown(ocrResponse.pages[pageIdx])
  /\ processedMarkdowns' = Append(processedMarkdowns, << >>)
  /\ pageIdx' = pageIdx + 1
  /\ UNCHANGED << pc, caller, mode, run, imagesDir, ocrResponse, markdown, entries,
                  entryIdx, result, files, returned, thrown, calls, log, firstRun,
                  ext >>

\* a variant that keeps the images the markdown has a placeholder of
PageImageDataReferenced(page) ==
  IF page.imagesType = "array"
    THEN SelectSeq(BuildImageData(page.images, << >>),
                   LAMBDA e : Includes(page.markdown, ImageRef(e[1], e[1])))
    ELSE << >>

\* the imageData of a page: page.images && Array.isArray(page.images)
PageImageData(page) ==
  IF page.imagesType = "array" THEN BuildImageData(page.images, << >>) ELSE << >>

\* the map callback on a page with markdown: build imageData and call
\* replaceImagesInMarkdown(page.markdown, imageData, imagesDir)
EnterPage ==
  /\ pc = "map"
  /\ pageIdx <= Len(ocrResponse.pages)
  /\ ~NoMarkdown(ocrResponse.pages[pageIdx])
  /\ markdown' = ocrResponse.pages[pageIdx].markdown
  /\ entries' = PageImageData(ocrResponse.pages[pageIdx])
  /\ entryIdx' = 1
  /\ result' = ocrResponse.pages[pageIdx].markdown
  /\ pc' = "loop"
  /\ UNCHANGED << caller, mode, run, imagesDir, ocrResponse, pageIdx,
                  processedMarkdowns, files, returned, thrown, calls, log, firstRun,
                  ext >>

(***************************************************************************)
(* replaceImagesInMarkdown (link mode): one iteration of the loop          *)
(***************************************************************************)
LogEntry(ok, path, after) ==
  [run |-> run, page |-> pageIdx, imgId |-> entries[entryIdx][1],
   base64Data |-> entries[entryIdx][2], path |-> path, ok |-> ok,
   before |-> result, after |-> after]

LoopUnchanged ==
  UNCHANGED << pc, caller, mode, run, imagesDir, ocrResponse, pageIdx,
               processedMarkdowns, markdown, entries, returned, thrown, calls,
               firstRun,
               ext >>

\* the try block runs to its end: the image is written, the references replaced
SaveImage ==
  /\ pc = "loop"
  /\ mode = "link"
  /\ entryIdx <= Len(entries)
  /\ LET imgId      == entries[entryIdx][1]
         base64Data == entries[entryIdx][2]
         fileName   == imageFileName(hash(imgId, base64Data))
         path       == imagePath(imagesDir, fileName)
         relPath    == relativeImagePath(imagesDir, fileName)
         after      == ReplaceReferences(result, imgId, relPath)
     IN /\ ~DecodeThrows(base64Data)
        /\ files' = (path :> imageBuffer(base64Data)) @@ files
        /\ result' = after
        /\ log' = Append(log, LogEntry(TRUE, path, after))
  /\ entryIdx' = entryIdx + 1
  /\ LoopUnchanged

\* a variant in which the failure of an image leaves the loop and rejects
SaveImageFailsRethrows ==
  /\ pc = "loop"
  /\ mode = "link"
  /\ entryIdx <= Len(entries)
  /\ Throw("Failed to save image")
  /\ UNCHANGED << caller, mode, run, imagesDir, ocrResponse, pageIdx,
                  processedMarkdowns, markdown, entries, entryIdx, result, files,
                  returned, calls, log, firstRun,
                  ext >>

\* a variant in which the references of an image that failed are rewritten
SaveImageFailsLinks ==
  /\ pc = "loop"
  /\ mode = "link"
  /\ entryIdx <= Len(entries)
  /\ LET imgId      == entries[entryIdx][1]
         base64Data == entries[entryIdx][2]
         fileName   == imageFileName(hash(imgId, base64Data))
         path       == imagePath(imagesDir, fileName)
         after      == ReplaceReferences(result, imgId,
                                         relativeImagePath(imagesDir, fileName))
     IN /\ log' = Append(log, LogEntry(FALSE, path, after))
        /\ result' = after
  /\ entryIdx' = entryIdx + 1
  /\ UNCHANGED files
  /\ LoopUnchanged

\* the try block throws, at Buffer.from or at fs.writeFileSync: the catch
\* logs the id and the loop goes on
SaveImageFails ==
  /\ pc = "loop"
  /\ mode = "link"
  /\ entryIdx <= Len(entries)
  /\ LET imgId      == entries[entryIdx][1]
         base64Data == entries[entryIdx][2]
         fileName   == imageFileName(hash(imgId, base64Data))
         path       == imagePath(imagesDir, fileName)
     IN log' = Append(log, LogEntry(FALSE, path, result))
  /\ entryIdx' = entryIdx + 1
  /\ UNCHANGED << files, result >>
  /\ LoopUnchanged

\* return result, to the map callback of processFile
ReturnToMap ==
  /\ pc = "loop"
  /\ caller = "processFile"
  /\ entryIdx > Len(entries)
  /\ processedMarkdowns' = Append(processedMarkdowns, result)
  /\ pageIdx' = pageIdx + 1
  /\ pc' = "map"
  /\ UNCHANGED << caller, mode, run, imagesDir, ocrResponse, markdown, entries,
                  entryIdx, result, files, returned, thrown, calls, log, firstRun,
                  ext >>

\* return result, to a direct caller
ReturnDirect ==
  /\ pc = "loop"
  /\ caller = "direct"
  /\ entryIdx > Len(entries)
  /\ returned' = result
  /\ pc' = "done"
  /\ UNCHANGED << caller, mode, run, imagesDir, ocrResponse, pageIdx,
                  processedMarkdowns, markdown, entries, entryIdx, result, files,
                  thrown, calls, log, firstRun,
                  ext >>

\* processedMarkdowns.filter(Boolean).join('\n\n') is returned
JoinPages ==
  /\ pc = "map"
  /\ pageIdx > Len(ocrResponse.pages)
  /\ returned' = Join(FilterBoolean(processedMarkdowns), Separator)
  /\ pc' = "done"
  /\ UNCHANGED << caller, mode, run, imagesDir, ocrResponse, pageIdx,
                  processedMarkdowns, markdown, entries, entryIdx, result, files,
                  thrown, calls, log, firstRun,
                  ext >>

\* the same OCR response is processed a second time, the files of the first
\* run being in place
ProcessAgain ==
  /\ pc = "done"
  /\ caller = "processFile"
  /\ run = 1
  /\ run' = 2
  /\ firstRun' = [markdown |-> returned, log |-> log]
  /\ pc' = "validate"
  /\ log' = << >>
  /\ returned' = << >>
  /\ UNCHANGED << caller, mode, imagesDir, ocrResponse, pageIdx, processedMarkdowns,
                  markdown, entries, entryIdx, result, files, thrown, calls,
                  ext >>

\* replaceImagesInMarkdown is called again, on the markdown it returned, with
\* the same images and the same imagesDir, the files of the first call being
\* in place
RewriteAgain ==
  /\ pc = "done"
  /\ caller = "direct"
  /\ mode = "link"
  /\ run = 1
  /\ run' = 2
  /\ firstRun' = [markdown |-> returned, log |-> log]
  /\ markdown' = returned
  /\ result' = returned
  /\ entryIdx' = 1
  /\ log' = << >>
  /\ returned' = << >>
  /\ pc' = "loop"
  /\ UNCHANGED << caller, mode, imagesDir, ocrResponse, pageIdx, processedMarkdowns,
                  entries, files, thrown, calls, ext >>

(***************************************************************************)
(* replaceImagesInMarkdown (embed mode): one iteration of the loop         *)
(***************************************************************************)
EmbedImage ==
  /\ pc = "loop"
  /\ mode = "embed"
  /\ entryIdx <= Len(entries)
  /\ LET after == EmbedReplace(result, entries[entryIdx][1], entries[entryIdx][2])
     IN /\ result' = after
        /\ log' = Append(log, LogEntry(TRUE, << >>, after))
  /\ entryIdx' = entryIdx + 1
  /\ UNCHANGED files
  /\ LoopUnchanged

(***************************************************************************)
(* Paths: a path is the sequence of its segments, each a sequence of       *)
(* characters; the empty sequence is the directory '.'                     *)
(***************************************************************************)
UpperCase == <<"A","B","C","D","E","F","G","H","I","J","K","L","M",
               "N","O","P","Q","R","S","T","U","V","W","X","Y","Z">>
LowerCase == <<"a","b","c","d","e","f","g","h","i","j","k","l","m",
               "n","o","p","q","r","s","t","u","v","w","x","y","z">>

\* String.prototype.toLowerCase
toLowerCase(str) ==
  [ i \in 1..Len(str) |->
      IF \E k \in 1..Len(UpperCase) : UpperCase[k] = str[i]
        THEN LowerCase[CHOOSE k \in 1..Len(UpperCase) : UpperCase[k] = str[i]]
        ELSE str[i] ]

\* the index of the last '.' of a name, 0 when it has none
LastDot(name) ==
  IF \E i \in 1..Len(name) : name[i] = "."
    THEN CHOOSE i \in 1..Len(name) :
           name[i] = "." /\ \A j \in (i + 1)..Len(name) : name[j] # "."
    ELSE 0

\* path.basename(p)
pathBasename(p) == IF p = << >> THEN << >> ELSE p[Len(p)]

\* path.dirname(p)
pathDirname(p) == IF p = << >> THEN << >> ELSE SubSeq(p, 1, Len(p) - 1)

\* path.extname(p): from the last '.' of the base name on, '' when the base
\* name has no '.' or only starts with one
pathExtname(p) ==
  LET base == pathBasename(p) IN
    IF LastDot(base) <= 1 THEN << >>
    ELSE SubSeq(base, LastDot(base), Len(base))

\* path.basename(p, ext)
pathBasenameExt(p, extension) ==
  LET base == pathBasename(p)
      n    == Len(base) - Len(extension) IN
    IF extension # << >> /\ n >= 1 /\ SubSeq(base, n + 1, Len(base)) = extension
      THEN SubSeq(base, 1, n)
      ELSE base

\* path.join(dir, name)
pathJoin(dir, name) == Append(dir, name)

ImagesSuffix == <<"-","i","m","a","g","e","s">>

\* a variant that keeps the extension in the name
imagesDirOfFullName(dir, p) == pathJoin(dir, pathBasename(p) \o ImagesSuffix)

\* path.join(<dir>, `${<name of p without extension>}-images`)
imagesDirOf(dir, p) ==
  pathJoin(dir, pathBasenameExt(p, pathExtname(p)) \o ImagesSuffix)

\* a variant that compares the extension as it is written
isFileSupportedCaseSensitive(p) == pathExtname(p) = <<".","p","d","f">>

\* isFileSupported(filePath)
isFileSupported(p) == toLowerCase(pathExtname(p)) = <<".","p","d","f">>

(***************************************************************************)
(* processFile: the check of the file type, before the try                 *)
(***************************************************************************)
UnsupportedMessage == "Only PDF files are supported. Received: "

CheckSupported ==
  /\ pc = "check"
  /\ IF isFileSupported(filePath)
       THEN pc' = "readFile" /\ thrown' = thrown
       ELSE pc' = "failed" /\ thrown' = <<"", UnsupportedMessage, pathExtname(filePath)>>
  /\ UNCHANGED << caller, mode, run, imagesDir, ocrResponse, pageIdx,
                  processedMarkdowns, markdown, entries, entryIdx, result, files,
                  returned, calls, log, firstRun >>
  /\ UNCHANGED ext

(***************************************************************************)
(* processFile of the revision that embeds the payloads (part_000): the    *)
(* response is used in whatever shape it has, the page results are joined  *)
(* as they are and the document is saved next to the input                 *)
(***************************************************************************)
\* an OCR response of this revision: key is the one of 'markdown', 'text'
\* and 'content' the object holds, "none" when it holds none
EmbedResponse(t, pt, ps, k, v) ==
  [type |-> t, pagesType |-> pt, pages |-> ps, key |-> k, value |-> v]

EmbedPageSet ==
  { [markdownType |-> "undefined", markdown |-> << >>, imagesType |-> "array",
     images |-> << Image(I1, P1) >>],
    Page(<< >>, << >>),
    Page(<<"T">>, << >>),
    Page(ImageRef(I1, I1), << Image(I1, P1) >>),
    Page(ImageRef(I1, I1) \o <<"T">>, << Image(I1, PData), Image(Abc, P1) >>) }

EmbedResponses ==
  { EmbedResponse("null", "undefined", << >>, "none", << >>),
    EmbedResponse("object", "undefined", << >>, "none", << >>),
    EmbedResponse("object", "string", << >>, "none", << >>),
    EmbedResponse("object", "undefined", << >>, "markdown", <<"T">>),
    EmbedResponse("object", "undefined", << >>, "text", <<"T">>),
    EmbedResponse("object", "undefined", << >>, "content", << >>) }
    \cup { EmbedResponse("object", "array", ps, "none", << >>) :
             ps \in SeqUpTo(EmbedPageSet, MaxPages) }

EmbedErrorPrefix == "Failed to process file with Mistral OCR API: "

\* processFile(filePath) of this revision has been called on a PDF
InitEmbedFile ==
  /\ InitCommon
  /\ ExtIdle
  /\ pc = "readFile"
  /\ caller = "processFile"
  /\ mode = "embed"
  /\ imagesDir = << >>
  /\ ocrResponse = EmbedResponse("none", "undefined", << >>, "none", << >>)
  /\ pageIdx = 0
  /\ processedMarkdowns = << >>
  /\ markdown = << >>
  /\ entries = << >>
  /\ entryIdx = 0
  /\ result = << >>

\* one awaited call of this revision: it resolves, or the catch rethrows
EmbedAwait(here, next, name) ==
  /\ pc = here
  /\ mode = "embed"
  /\ calls' = Append(calls, name)
  /\ \E ok \in BOOLEAN :
       IF ok THEN pc' = next /\ thrown' = thrown
       ELSE pc' = "failed" /\ thrown' = <<EmbedErrorPrefix, name \o " failed">>
  /\ UNCHANGED ocrResponse

EmbedReadFile ==
  /\ EmbedAwait("readFile", "upload", "fs.readFile")
  /\ ApiUnchanged

EmbedFilesUpload ==
  /\ EmbedAwait("upload", "retrieve", "files.upload")
  /\ ApiUnchanged

\* await this.retrieveFileDetails(uploadedFile.id)
EmbedRetrieveFileDetails ==
  /\ EmbedAwait("retrieve", "getSignedUrl", "files.retrieve")
  /\ ApiUnchanged

EmbedFilesGetSignedUrl ==
  /\ EmbedAwait("getSignedUrl", "ocr", "files.getSignedUrl")
  /\ ApiUnchanged

EmbedOcrProcess ==
  /\ pc = "ocr"
  /\ mode = "embed"
  /\ calls' = Append(calls, "ocr.process")
  /\ \E ok \in BOOLEAN :
       IF ok
         THEN /\ ocrResponse' \in EmbedResponses
              /\ pc' = "respond"
              /\ thrown' = thrown
         ELSE /\ pc' = "failed"
              /\ thrown' = <<EmbedErrorPrefix, "ocr.process failed">>
              /\ UNCHANGED ocrResponse
  /\ ApiUnchanged

\* <dirname(originalFilePath)>/<name without extension>_processed.md
processedPath(p) ==
  pathJoin(pathDirname(p),
           pathBasenameExt(p, pathExtname(p))
             \o <<"_","p","r","o","c","e","s","s","e","d",".","m","d">>)

\* saveMarkdownToFile: fs.writeFileSync writes the file, or throws and the
\* catch logs the error
saveMarkdownToFile(text) ==
  \/ files' = (processedPath(filePath) :> text) @@ files
  \/ files' = files

\* the response has a pages array
HasPageList(r) == r.type = "object" /\ r.pagesType = "array"

\* the branches on the shape of the response that do not map pages: an
\* object without a pages array yields its markdown, text or content, ''
\* when it has none; anything else yields JSON.stringify(ocrResponse)
EmbedRespond ==
  /\ pc = "respond"
  /\ IF HasPageList(ocrResponse)
       THEN /\ pc' = "map"
            /\ pageIdx' = 1
            /\ processedMarkdowns' = << >>
            /\ UNCHANGED << returned, files >>
       ELSE /\ pc' = "done"
            /\ UNCHANGED << pageIdx, processedMarkdowns >>
            /\ IF ocrResponse.type = "object"
                 THEN /\ returned' = ocrResponse.value
                      /\ IF ocrResponse.value # << >>
                           THEN saveMarkdownToFile(ocrResponse.value)
                           ELSE files' = files
                 ELSE /\ returned' = <<"n","u","l","l">>
                      /\ files' = files
  /\ UNCHANGED << caller, mode, run, imagesDir, ocrResponse, markdown, entries,
                  entryIdx, result, thrown, calls, log, firstRun, ext >>

\* page && typeof page === 'object' && 'markdown' in page
HasMarkdownKey(page) == page.markdownType # "undefined"

\* imageData[img.id] = img.imageBase64 for the images that have both keys
RECURSIVE EmbedBuildImageData(_, _)
EmbedBuildImageData(images, dict) ==
  IF images = << >> THEN dict
  ELSE EmbedBuildImageData(Tail(images),
                           SetKey(dict, Head(images).id, Head(images).imageBase64))

\* the map callback on a page without the markdown key: return ''
EmbedSkipPage ==
  /\ pc = "map"
  /\ mode = "embed"
  /\ pageIdx <= Len(ocrResponse.pages)
  /\ ~HasMarkdownKey(ocrResponse.pages[pageIdx])
  /\ processedMarkdowns' = Append(processedMarkdowns, << >>)
  /\ pageIdx' = pageIdx + 1
  /\ UNCHANGED << pc, caller, mode, run, imagesDir, ocrResponse, markdown, entries,
                  entryIdx, result, files, returned, thrown, calls, log, firstRun,
                  ext >>

\* the map callback on a page with the markdown key
EmbedEnterPage ==
  /\ pc = "map"
  /\ mode = "embed"
  /\ pageIdx <= Len(ocrResponse.pages)
  /\ HasMarkdownKey(ocrResponse.pages[pageIdx])
  /\ markdown' = ocrResponse.pages[pageIdx].markdown
  /\ entries' = IF ocrResponse.pages[pageIdx].imagesType = "array"
                  THEN EmbedBuildImageData(ocrResponse.pages[pageIdx].images, << >>)
                  ELSE << >>
  /\ entryIdx' = 1
  /\ result' = ocrResponse.pages[pageIdx].markdown
  /\ pc' = "loop"
  /\ UNCHANGED << caller, mode, run, imagesDir, ocrResponse, pageIdx,
                  processedMarkdowns, files, returned, thrown, calls, log, firstRun,
                  ext >>

\* processedMarkdowns.join('\n\n') is saved and returned
EmbedJoinPages ==
  /\ pc = "map"
  /\ mode = "embed"
  /\ pageIdx > Len(ocrResponse.pages)
  /\ returned' = Join(processedMarkdowns, Separator)
  /\ saveMarkdownToFile(Join(processedMarkdowns, Separator))
  /\ pc' = "done"
  /\ UNCHANGED << caller, mode, run, imagesDir, ocrResponse, pageIdx,
                  processedMarkdowns, markdown, entries, entryIdx, result,
                  thrown, calls, log, firstRun, ext >>

(***************************************************************************)
(* The process command and processFiles                                    *)
(***************************************************************************)
\* the options of a command never change
OptionsUnchanged ==
  UNCHANGED << command, apiKeySet, input, output, language, inputKind,
               imagesDirExists >>

\* a step of a command that leaves the service, the logger and the second
\* call alone
OutsideService == UNCHANGED << svcVars, loggerVars, other >>

\* the paths given as input and as output
InDir  == <<"i","n">>
OutDir == <<"o","u","t">>

ProcessInputs ==
  { << InDir, <<"d",".","p","d","f">> >>,
    << InDir, <<"e",".","P","D","F">> >>,
    << InDir, <<"d",".","t","x","t">> >>,
    << InDir, <<"d",".","p","d","f",".","m","d">> >>,
    << InDir, <<".","p","d","f">> >>,
    << InDir, <<"d">> >> }

ProcessOutputs ==
  { << OutDir, <<"d",".","m","d">> >>, << <<"r",".","m","d">> >> }

\* the process command was given options, or processFiles was called by
\* another caller; processFile has not been called
InitProcess ==
  /\ InitCommon
  /\ LoggerInit
  /\ other = NoOther
  /\ pc = "idle"
  /\ caller = "processFile"
  /\ mode = "link"
  /\ imagesDir = << >>
  /\ ocrResponse = NoResponse
  /\ pageIdx = 0
  /\ processedMarkdowns = << >>
  /\ markdown = << >>
  /\ entries = << >>
  /\ entryIdx = 0
  /\ result = << >>
  /\ filePath = << >>
  /\ command \in {"process", "processFiles"}
  /\ cliPc = IF command = "process" THEN "action" ELSE "pathExists"
  /\ apiKeySet \in BOOLEAN
  /\ input \in ProcessInputs
  /\ output \in ProcessOutputs
  /\ language = << >>
  /\ inputKind \in {"missing", "file", "directory"}
  /\ imagesDirExists = FALSE
  /\ translatedContent = << >>
  /\ fsCalls = << >>
  /\ outFiles = NoFiles
  /\ rejected = << >>
  /\ exitCode = -1

ApiKeyMessage ==
  "MISTRAL_API_KEY is not set in environment variables. Create a .env file with your API key."

ConstructorMessage ==
  "MISTRAL_API_KEY environment variable is not set. Please set it to use the Mistral OCR service."

\* processFiles or translateFiles rejects with this message
Reject(message) ==
  /\ rejected' = message
  /\ cliPc' = "rejected"

\* the action of a command: if (!process.env.MISTRAL_API_KEY) throw ...
CheckApiKey ==
  /\ cliPc = "action"
  /\ IF apiKeySet
       THEN cliPc' = "pathExists" /\ rejected' = rejected
       ELSE Reject(<<ApiKeyMessage>>)
  /\ UNCHANGED << translatedContent, fsCalls, outFiles, exitCode, filePath >>
  /\ OptionsUnchanged
  /\ OutsideService

\* if (!(await fs.pathExists(input))) throw ...
PathExists ==
  /\ cliPc = "pathExists"
  /\ fsCalls' = Append(fsCalls, <<"pathExists", input>>)
  /\ IF inputKind = "missing"
       THEN Reject(<<"Input file does not exist: ", input>>)
       ELSE cliPc' = "stat" /\ rejected' = rejected
  /\ UNCHANGED << translatedContent, outFiles, exitCode, filePath >>
  /\ OptionsUnchanged
  /\ OutsideService

\* where a command goes on once the input is known to be a file
AfterStat == "ensureImagesDir"

\* a variant that does not look at what fs.stat resolved with
StatAnyKind ==
  /\ cliPc = "stat"
  /\ fsCalls' = Append(fsCalls, <<"stat", input>>)
  /\ cliPc' = AfterStat
  /\ UNCHANGED << translatedContent, outFiles, rejected, exitCode, filePath >>
  /\ OptionsUnchanged
  /\ OutsideService

\* const inputStat = await fs.stat(input); if (!inputStat.isFile()) throw ...
Stat ==
  /\ cliPc = "stat"
  /\ fsCalls' = Append(fsCalls, <<"stat", input>>)
  /\ IF inputKind # "file"
       THEN Reject(<<"Input must be a file, not a directory: ", input>>)
       ELSE cliPc' = AfterStat /\ rejected' = rejected
  /\ UNCHANGED << translatedContent, outFiles, exitCode, filePath >>
  /\ OptionsUnchanged
  /\ OutsideService

\* a variant that rethrows the cause as it is
ProcessCatchRethrows(cause) == Reject(cause)

\* the catch of processFiles
ProcessCatch(cause) ==
  Reject(<<"Failed to process PDF ", input, ": ", cause>>)

\* the imagesDir of processFiles
processImagesDir == imagesDirOf(pathDirname(output), input)

\* await fs.ensureDir(imagesDir)
EnsureImagesDir ==
  /\ cliPc = "ensureImagesDir"
  /\ fsCalls' = Append(fsCalls, <<"ensureDir", processImagesDir>>)
  /\ \E ok \in BOOLEAN :
       IF ok THEN cliPc' = "construct" /\ rejected' = rejected
       ELSE ProcessCatch(<<"ensureDir failed">>)
  /\ UNCHANGED << translatedContent, outFiles, exitCode, filePath >>
  /\ OptionsUnchanged
  /\ OutsideService

\* new MistralService(); mistralService.processFile(input, imagesDir) is called
CallProcessFile ==
  /\ cliPc = "construct"
  /\ IF apiKeySet
       THEN /\ fsCalls' = Append(fsCalls, <<"processFile", input, processImagesDir>>)
            /\ cliPc' = "awaitProcessFile"
            /\ pc' = "check"
            /\ filePath' = input
            /\ imagesDir' = processImagesDir
            /\ rejected' = rejected
       ELSE /\ ProcessCatch(<<ConstructorMessage>>)
            /\ UNCHANGED << fsCalls, pc, filePath, imagesDir >>
  /\ UNCHANGED << translatedContent, outFiles, exitCode >>
  /\ UNCHANGED << caller, mode, run, ocrResponse, pageIdx, processedMarkdowns,
                  markdown, entries, entryIdx, result, files, returned, thrown,
                  calls, log, firstRun >>
  /\ UNCHANGED << loggerVars, other >>
  /\ OptionsUnchanged

\* await mistralService.processFile(...) rejects: the catch of processFiles
ProcessFileRejected ==
  /\ cliPc = "awaitProcessFile"
  /\ pc = "failed"
  /\ ProcessCatch(thrown)
  /\ UNCHANGED << translatedContent, fsCalls, outFiles, exitCode, filePath >>
  /\ OptionsUnchanged
  /\ OutsideService

\* await mistralService.processFile(...) resolves; the tokens of the response
\* are counted and the cost is estimated
CountTokens ==
  /\ cliPc = "awaitProcessFile"
  /\ pc = "done"
  /\ fsCalls' = Append(fsCalls, <<"countTokens", returned>>)
  /\ cliPc' = "ensureOutputDir"
  /\ UNCHANGED << translatedContent, outFiles, rejected, exitCode, filePath >>
  /\ OptionsUnchanged
  /\ OutsideService

\* await fs.ensureDir(path.dirname(output))
EnsureOutputDir ==
  /\ cliPc = "ensureOutputDir"
  /\ fsCalls' = Append(fsCalls, <<"ensureDir", pathDirname(output)>>)
  /\ \E ok \in BOOLEAN :
       IF ok THEN cliPc' = "writeFile" /\ rejected' = rejected
       ELSE ProcessCatch(<<"ensureDir failed">>)
  /\ UNCHANGED << translatedContent, outFiles, exitCode, filePath >>
  /\ OptionsUnchanged
  /\ OutsideService

\* await fs.writeFile(output, response, 'utf-8')
WriteOutput ==
  /\ cliPc = "writeFile"
  /\ command \in {"process", "processFiles"}
  /\ fsCalls' = Append(fsCalls, <<"writeFile", output, returned>>)
  /\ \E ok \in BOOLEAN :
       IF ok THEN /\ outFiles' = (output :> returned) @@ outFiles
                  /\ cliPc' = "resolved"
                  /\ rejected' = rejected
       ELSE /\ ProcessCatch(<<"writeFile failed">>)
            /\ UNCHANGED outFiles
  /\ UNCHANGED << translatedContent, exitCode, filePath >>
  /\ OptionsUnchanged
  /\ OutsideService

\* the catch of a command's action: console.error(...); process.exit(1)
CommandCatch ==
  /\ cliPc = "rejected"
  /\ command = "process"
  /\ fsCalls' = Append(fsCalls, <<"console.error", rejected>>)
  /\ exitCode' = 1
  /\ cliPc' = "exited"
  /\ UNCHANGED << translatedContent, outFiles, rejected, filePath >>
  /\ OptionsUnchanged
  /\ OutsideService

\* the end of a command's action: console.log('... completed successfully!')
CommandCompleted ==
  /\ cliPc = "resolved"
  /\ command = "process"
  /\ fsCalls' = Append(fsCalls, <<"console.log", "completed successfully">>)
  /\ cliPc' = "completed"
  /\ UNCHANGED << translatedContent, outFiles, rejected, exitCode, filePath >>
  /\ OptionsUnchanged
  /\ OutsideService

(***************************************************************************)
(* The translate command and translateFiles                                *)
(***************************************************************************)
\* SUPPORTED_LANGUAGES
SUPPORTED_LANGUAGES ==
  << <<"f","r","e","n","c","h">>, <<"g","e","r","m","a","n">>,
     <<"s","p","a","n","i","s","h">>, <<"r","u","s","s","i","a","n">> >>

\* a variant that compares the language as it is written
isLanguageSupportedCaseSensitive(lang) == lang \in Range(SUPPORTED_LANGUAGES)

\* SUPPORTED_LANGUAGES.includes(language.toLowerCase())
isLanguageSupported(lang) == toLowerCase(lang) \in Range(SUPPORTED_LANGUAGES)

TranslateInputs ==
  { << InDir, <<"d",".","m","d">> >>, << InDir, <<"a",".","c",".","m","d">> >> }

TranslateOutputs ==
  { << OutDir, <<"d",".","m","d">> >>, << OutDir, <<"f",".","m","d">> >> }

Languages ==
  { <<"f","r","e","n","c","h">>, <<"G","e","r","m","a","n">>,
    <<"i","t","a","l","i","a","n">> }

\* what the translated text is put together from: references into images
\* folders, text
TranslationSegments ==
  { <<"d">> \o ImagesSuffix \o <<"/">>,
    <<"a",".","c">> \o ImagesSuffix \o <<"/">>,
    <<"a","b","c">> \o ImagesSuffix \o <<"/">>,
    <<"T">> }

Translations ==
  { Flatten(segs) : segs \in SeqUpTo(TranslationSegments, MaxSegs) } \ { << >> }

\* what chat.complete resolves with: nothing, an object without choices,
\* with no choice, with a choice of empty content, with a translation
ChatResponses ==
  { [kind |-> k, content |-> << >>] : k \in {"null", "noChoices", "emptyChoices", "content"} }
    \cup { [kind |-> "content", content |-> t] : t \in Translations }

\* what chat.complete resolves with for an input file.  For a file the
\* process command has written, the translations are those that keep its
\* image links as they are
ChatResponsesFor(file) ==
  IF file \in DOMAIN outFiles
    THEN { [kind |-> k, content |-> << >>] : k \in {"null", "content"} }
           \cup { [kind |-> "content", content |-> outFiles[file]] }
    ELSE ChatResponses

\* the translate command was given options, or translateFiles was called
\* by another caller
InitTranslate ==
  /\ InitCommon
  /\ LoggerInit
  /\ other = NoOther
  /\ pc = "idle"
  /\ caller = "processFile"
  /\ mode = "link"
  /\ imagesDir = << >>
  /\ ocrResponse = NoResponse
  /\ pageIdx = 0
  /\ processedMarkdowns = << >>
  /\ markdown = << >>
  /\ entries = << >>
  /\ entryIdx = 0
  /\ result = << >>
  /\ filePath = << >>
  /\ command \in {"translate", "translateFiles"}
  /\ cliPc = IF command = "translate" THEN "translateAction" ELSE "tPathExists"
  /\ apiKeySet \in BOOLEAN
  /\ input \in TranslateInputs
  /\ output \in TranslateOutputs
  /\ language \in Languages
  /\ inputKind \in {"missing", "file", "directory"}
  /\ imagesDirExists \in BOOLEAN
  /\ translatedContent = << >>
  /\ fsCalls = << >>
  /\ outFiles = NoFiles
  /\ rejected = << >>
  /\ exitCode = -1

\* a step of translateFiles or of the translate command
TranslateStep(unchangedVars) ==
  /\ UNCHANGED unchangedVars
  /\ UNCHANGED filePath
  /\ OptionsUnchanged
  /\ OutsideService

\* the action of the translate command: if (!process.env.MISTRAL_API_KEY) throw ...
TranslateCheckApiKey ==
  /\ cliPc = "translateAction"
  /\ IF apiKeySet
       THEN cliPc' = "tPathExists" /\ rejected' = rejected
       ELSE Reject(<<ApiKeyMessage>>)
  /\ TranslateStep(<< translatedContent, fsCalls, outFiles, exitCode >>)

\* if (!(await fs.pathExists(input))) throw ...
TranslatePathExists ==
  /\ cliPc = "tPathExists"
  /\ fsCalls' = Append(fsCalls, <<"pathExists", input>>)
  /\ IF inputKind = "missing"
       THEN Reject(<<"Input file does not exist: ", input>>)
       ELSE cliPc' = "tStat" /\ rejected' = rejected
  /\ TranslateStep(<< translatedContent, outFiles, exitCode >>)

\* const inputStat = await fs.stat(input); if (!inputStat.isFile()) throw ...
TranslateStat ==
  /\ cliPc = "tStat"
  /\ fsCalls' = Append(fsCalls, <<"stat", input>>)
  /\ IF inputKind # "file"
       THEN Reject(<<"Input must be a file, not a directory: ", input>>)
       ELSE cliPc' = "tLanguage" /\ rejected' = rejected
  /\ TranslateStep(<< translatedContent, outFiles, exitCode >>)

UnsupportedLanguageMessage(lang) ==
  <<"Unsupported language: ", lang,
    ". Supported languages are: french, german, spanish, russian">>

\* if (!SUPPORTED_LANGUAGES.includes(language.toLowerCase())) throw ...
TranslateCheckLanguage ==
  /\ cliPc = "tLanguage"
  /\ IF isLanguageSupported(language)
       THEN cliPc' = "tReadFile" /\ rejected' = rejected
       ELSE Reject(UnsupportedLanguageMessage(language))
  /\ TranslateStep(<< translatedContent, fsCalls, outFiles, exitCode >>)

\* the catch of translateFiles
TranslateCatch(cause) ==
  Reject(<<"Failed to translate file ", input, ": ", cause>>)

\* one awaited fs call of the try block: it resolves or it rejects
TranslateAwait(here, next, call) ==
  /\ cliPc = here
  /\ fsCalls' = Append(fsCalls, call)
  /\ \E ok \in BOOLEAN :
       IF ok THEN cliPc' = next /\ rejected' = rejected
       ELSE TranslateCatch(<<call[1], " failed">>)

\* const markdownContent = await fs.readFile(input, 'utf-8')
TranslateReadFile ==
  /\ TranslateAwait("tReadFile", "tTranslate", <<"readFile", input>>)
  /\ TranslateStep(<< translatedContent, outFiles, exitCode >>)

\* the catch of translateContent
TranslateContentCatch(message) == <<"Failed to translate content: ", message>>

\* what translateContent does with the response of chat.complete
TranslateContentFails(response) ==
  \/ response.kind \in {"null", "noChoices", "emptyChoices"}
  \/ response.content = << >>

TranslateContentMessage(response) ==
  IF response.kind = "content"
    THEN "Empty translation response from Mistral API"
    ELSE "Invalid response from Mistral API"

\* new MistralService(); await mistralService.translateContent(markdownContent, language)
TranslateContent ==
  /\ cliPc = "tTranslate"
  /\ IF ~apiKeySet
       THEN /\ TranslateCatch(<<ConstructorMessage>>)
            /\ UNCHANGED << fsCalls, translatedContent >>
       ELSE /\ fsCalls' = Append(fsCalls, <<"translateContent", language>>)
            /\ \/ /\ TranslateCatch(TranslateContentCatch("chat.complete failed"))
                  /\ UNCHANGED translatedContent
               \/ \E response \in ChatResponsesFor(input) :
                    IF TranslateContentFails(response)
                      THEN /\ TranslateCatch(TranslateContentCatch(
                                               TranslateContentMessage(response)))
                           /\ UNCHANGED translatedContent
                      ELSE /\ translatedContent' = response.content
                           /\ cliPc' = "tEnsureDir"
                           /\ rejected' = rejected
  /\ TranslateStep(<< outFiles, exitCode >>)

\* await fs.ensureDir(path.dirname(output))
TranslateEnsureDir ==
  /\ TranslateAwait("tEnsureDir", "tWriteFile", <<"ensureDir", pathDirname(output)>>)
  /\ TranslateStep(<< translatedContent, outFiles, exitCode >>)

\* await fs.writeFile(output, translatedContent, 'utf-8')
TranslateWriteFile ==
  /\ TranslateAwait("tWriteFile", "tImagesExist", <<"writeFile", output, translatedContent>>)
  /\ outFiles' = IF cliPc' = "tImagesExist"
                   THEN (output :> translatedContent) @@ outFiles
                   ELSE outFiles
  /\ TranslateStep(<< translatedContent, exitCode >>)

inputFileName  == pathBasenameExt(input, pathExtname(input))
outputFileName == pathBasenameExt(output, pathExtname(output))

\* the folder of the input's images and the folder they are copied to
inputImagesDir  == imagesDirOf(pathDirname(input), input)
outputImagesDir == imagesDirOf(pathDirname(output), output)

\* if (await fs.pathExists(imagesDir))
TranslateImagesExist ==
  /\ cliPc = "tImagesExist"
  /\ fsCalls' = Append(fsCalls, <<"pathExists", inputImagesDir>>)
  /\ cliPc' = IF imagesDirExists THEN "tCopy" ELSE "resolved"
  /\ TranslateStep(<< translatedContent, outFiles, rejected, exitCode >>)

\* fs.copy(from, to): every file under from is also under to
CopyDir(fs, from, to) ==
  LET under == { f \in DOMAIN fs : Len(f) > Len(from) /\ SubSeq(f, 1, Len(from)) = from }
      moved(f) == to \o SubSeq(f, Len(from) + 1, Len(f))
  IN [ g \in DOMAIN fs \cup { moved(f) : f \in under } |->
         IF \E f \in under : moved(f) = g
           THEN fs[CHOOSE f \in under : moved(f) = g]
           ELSE fs[g] ]

\* await fs.copy(imagesDir, outputImagesDir); if (inputFileName !== outputFileName)
TranslateCopyImages ==
  /\ TranslateAwait("tCopy",
                    IF inputFileName # outputFileName THEN "tUpdate" ELSE "resolved",
                    <<"copy", inputImagesDir, outputImagesDir>>)
  /\ files' = IF cliPc' = "rejected" THEN files
              ELSE CopyDir(files, inputImagesDir, outputImagesDir)
  /\ UNCHANGED << pc, caller, mode, run, imagesDir, ocrResponse, pageIdx,
                  processedMarkdowns, markdown, entries, entryIdx, result, returned,
                  thrown, calls, log, firstRun >>
  /\ UNCHANGED << translatedContent, outFiles, exitCode, filePath, loggerVars, other >>
  /\ OptionsUnchanged

\* translatedContent.replace(new RegExp(`${inputFileName}-images/`, 'g'),
\*                           `${outputFileName}-images/`)
updatedContent(content, inName, outName) ==
  RegExpReplaceAll(content, inName \o ImagesSuffix \o <<"/">>,
                   outName \o ImagesSuffix \o <<"/">>)

\* await fs.writeFile(output, updatedContent, 'utf-8')
TranslateUpdatePaths ==
  /\ TranslateAwait("tUpdate", "resolved",
                    <<"writeFile", output,
                      updatedContent(translatedContent, inputFileName, outputFileName)>>)
  /\ outFiles' = IF cliPc' = "resolved"
                   THEN (output :> updatedContent(translatedContent, inputFileName,
                                                  outputFileName)) @@ outFiles
                   ELSE outFiles
  /\ TranslateStep(<< translatedContent, exitCode >>)

\* the catch of the translate action: console.error(...); process.exit(1)
TranslateCommandCatch ==
  /\ cliPc = "rejected"
  /\ command = "translate"
  /\ fsCalls' = Append(fsCalls, <<"console.error", rejected>>)
  /\ exitCode' = 1
  /\ cliPc' = "exited"
  /\ TranslateStep(<< translatedContent, outFiles, rejected >>)

\* the end of the translate action: console.log(`Translation to ... completed`)
TranslateCommandCompleted ==
  /\ cliPc = "resolved"
  /\ command = "translate"
  /\ fsCalls' = Append(fsCalls, <<"console.log", "completed successfully">>)
  /\ cliPc' = "completed"
  /\ TranslateStep(<< translatedContent, outFiles, rejected, exitCode >>)

(***************************************************************************)
(* The process command followed by the translate command on its output     *)
(***************************************************************************)
TranslatedDir == <<"t","r">>

\* the outputs of the translate command, in another directory
TranslatedOutputs ==
  { << TranslatedDir, <<"d",".","m","d">> >>, << TranslatedDir, <<"f",".","m","d">> >> }

\* the process command was given a PDF and an output
InitPipeline ==
  /\ InitCommon
  /\ LoggerInit
  /\ other = NoOther
  /\ pc = "idle"
  /\ caller = "processFile"
  /\ mode = "link"
  /\ imagesDir = << >>
  /\ ocrResponse = NoResponse
  /\ pageIdx = 0
  /\ processedMarkdowns = << >>
  /\ markdown = << >>
  /\ entries = << >>
  /\ entryIdx = 0
  /\ result = << >>
  /\ filePath = << >>
  /\ command = "process"
  /\ cliPc = "action"
  /\ apiKeySet = TRUE
  /\ input = PdfPath
  /\ output \in ProcessOutputs
  /\ language = << >>
  /\ inputKind = "file"
  /\ imagesDirExists = FALSE
  /\ translatedContent = << >>
  /\ fsCalls = << >>
  /\ outFiles = NoFiles
  /\ rejected = << >>
  /\ exitCode = -1

\* the process command has completed; the translate command is given its
\* output as input.  The images folder translateFiles looks for exists when
\* it is the one processFiles has made.
StartTranslate ==
  /\ command = "process"
  /\ cliPc = "completed"
  /\ command' = "translate"
  /\ cliPc' = "translateAction"
  /\ input' = output
  /\ output' \in TranslatedOutputs
  /\ language' = <<"f","r","e","n","c","h">>
  /\ inputKind' = "file"
  /\ imagesDirExists' = (imagesDirOf(pathDirname(output), output) = imagesDir)
  /\ UNCHANGED << apiKeySet, translatedContent, fsCalls, outFiles, rejected, exitCode,
                  filePath >>
  /\ OutsideService

(***************************************************************************)
(* LoggerService                                                           *)
(***************************************************************************)
\* the numbers given to setLogLevel: the five levels, one below, one above
LevelArguments == { LogLevel.DEBUG - 1, LogLevel.DEBUG, LogLevel.INFO, LogLevel.WARN,
                    LogLevel.ERROR, LogLevel.NONE, LogLevel.NONE + 1 }

\* the shared logger has been made and nothing else runs
InitLogger ==
  /\ InitCommon
  /\ NoCommand
  /\ LoggerInit
  /\ other = NoOther
  /\ pc = "idle"
  /\ caller = "processFile"
  /\ mode = "link"
  /\ imagesDir = << >>
  /\ ocrResponse = NoResponse
  /\ pageIdx = 0
  /\ processedMarkdowns = << >>
  /\ markdown = << >>
  /\ entries = << >>
  /\ entryIdx = 0
  /\ result = << >>
  /\ filePath = << >>

LoggerCall(method, argument, out) == [method |-> method, argument |-> argument, out |-> out]

\* setLogLevel(level)
SetLogLevel ==
  /\ Len(emitted) < MaxLoggerCalls
  /\ \E level \in LevelArguments :
       /\ logLevel' = level
       /\ emitted' = Append(emitted, LoggerCall("setLogLevel", level, "none"))
  /\ UNCHANGED << svcVars, cliVars, other >>

\* a variant that lets a message through only above its level
passesAbove(level, severity) == level < severity

\* this.logLevel <= LoggerService.LogLevel.<severity>
passes(level, severity) == level <= severity

\* one of debug, info, warn, error: the message goes to the console
\* function when the level lets it through
LogWith(method, severity, console) ==
  /\ Len(emitted) < MaxLoggerCalls
  /\ emitted' = Append(emitted,
                  LoggerCall(method, severity,
                             IF passes(logLevel, severity) THEN console ELSE "none"))
  /\ UNCHANGED logLevel
  /\ UNCHANGED << svcVars, cliVars, other >>

\* debug(message, ...args)
debug == LogWith("debug", LogLevel.DEBUG, "console.log")

\* info(message, ...args)
info == LogWith("info", LogLevel.INFO, "console.log")

\* warn(message, ...args)
warn == LogWith("warn", LogLevel.WARN, "console.warn")

\* error(message, ...args)
error == LogWith("error", LogLevel.ERROR, "console.error")

(***************************************************************************)
(* Two processFile calls at the same time.  A call gives up control only   *)
(* at an await; the variables of processFile are those of the call that    *)
(* runs, other holds the call that waits.                                  *)
(***************************************************************************)
\* where a call waits for fs.readFile or for the API
AwaitPoints == {"readFile", "upload", "getSignedUrl", "ocr"}

\* two calls for different documents and different images directories
InitTwoCalls ==
  /\ InitCommon
  /\ NoCommand
  /\ LoggerInit
  /\ filePath = PdfPath
  /\ pc = "readFile"
  /\ caller = "processFile"
  /\ mode = "link"
  /\ imagesDir = DirDoc
  /\ ocrResponse = NoResponse
  /\ pageIdx = 0
  /\ processedMarkdowns = << >>
  /\ markdown = << >>
  /\ entries = << >>
  /\ entryIdx = 0
  /\ result = << >>
  /\ other = [pc |-> "readFile", imagesDir |-> DirOther, ocrResponse |-> NoResponse,
              pageIdx |-> 0, processedMarkdowns |-> << >>, returned |-> << >>,
              thrown |-> << >>, calls |-> << >>, log |-> << >>]

\* the call that runs waits at an await, or is over, and the other call
\* goes on
Switch ==
  /\ other.pc # "none"
  /\ pc \in AwaitPoints \cup {"done", "failed"}
  /\ other' = [pc |-> pc, imagesDir |-> imagesDir, ocrResponse |-> ocrResponse,
               pageIdx |-> pageIdx, processedMarkdowns |-> processedMarkdowns,
               returned |-> returned, thrown |-> thrown, calls |-> calls, log |-> log]
  /\ pc' = other.pc
  /\ imagesDir' = other.imagesDir
  /\ ocrResponse' = other.ocrResponse
  /\ pageIdx' = other.pageIdx
  /\ processedMarkdowns' = other.processedMarkdowns
  /\ returned' = other.returned
  /\ thrown' = other.thrown
  /\ calls' = other.calls
  /\ log' = other.log
  /\ markdown' = << >>
  /\ entries' = << >>
  /\ entryIdx' = 0
  /\ result' = << >>
  /\ UNCHANGED << caller, mode, run, files, firstRun >>
  /\ UNCHANGED << cliVars, loggerVars >>

(***************************************************************************)
(* Specifications                                                          *)
(***************************************************************************)
Next ==
  \/ ReadFile
  \/ FilesUpload
  \/ FilesGetSignedUrl
  \/ OcrProcess
  \/ Validate
  \/ SkipPage
  \/ EnterPage
  \/ SaveImage
  \/ SaveImageFails
  \/ ReturnToMap
  \/ JoinPages
  \/ ProcessAgain

Spec == Init /\ [][Next]_vars

\* the link-mode rewrite called on its own
NextRewrite ==
  \/ SaveImage
  \/ SaveImageFails
  \/ ReturnDirect

SpecRewrite == InitRewrite /\ [][NextRewrite]_vars

\* the embed-mode rewrite called on its own
NextEmbed ==
  \/ EmbedImage
  \/ ReturnDirect

SpecEmbed == InitEmbed /\ [][NextEmbed]_vars

\* the process command, processFiles and the processFile call it makes
NextProcess ==
  \/ CheckApiKey
  \/ PathExists
  \/ Stat
  \/ EnsureImagesDir
  \/ CallProcessFile
  \/ CheckSupported
  \/ ReadFile
  \/ FilesUpload
  \/ FilesGetSignedUrl
  \/ OcrProcess
  \/ Validate
  \/ SkipPage
  \/ EnterPage
  \/ SaveImage
  \/ SaveImageFails
  \/ ReturnToMap
  \/ JoinPages
  \/ ProcessFileRejected
  \/ CountTokens
  \/ EnsureOutputDir
  \/ WriteOutput
  \/ CommandCatch
  \/ CommandCompleted

SpecProcess == InitProcess /\ [][NextProcess]_vars

\* the translate command and translateFiles
NextTranslate ==
  \/ TranslateCheckApiKey
  \/ TranslatePathExists
  \/ TranslateStat
  \/ TranslateCheckLanguage
  \/ TranslateReadFile
  \/ TranslateContent
  \/ TranslateEnsureDir
  \/ TranslateWriteFile
  \/ TranslateImagesExist
  \/ TranslateCopyImages
  \/ TranslateUpdatePaths
  \/ TranslateCommandCatch
  \/ TranslateCommandCompleted

SpecTranslate == InitTranslate /\ [][NextTranslate]_vars

\* the calls made on the shared logger
NextLogger ==
  \/ SetLogLevel
  \/ debug
  \/ info
  \/ warn
  \/ error

SpecLogger == InitLogger /\ [][NextLogger]_vars

\* the process command, then the translate command
NextPipeline ==
  \/ CheckApiKey
  \/ PathExists
  \/ Stat
  \/ EnsureImagesDir
  \/ CallProcessFile
  \/ CheckSupported
  \/ ReadFile
  \/ FilesUpload
  \/ FilesGetSignedUrl
  \/ OcrProcess
  \/ Validate
  \/ SkipPage
  \/ EnterPage
  \/ SaveImage
  \/ SaveImageFails
  \/ ReturnToMap
  \/ JoinPages
  \/ ProcessFileRejected
  \/ CountTokens
  \/ EnsureOutputDir
  \/ WriteOutput
  \/ CommandCatch
  \/ CommandCompleted
  \/ StartTranslate
  \/ TranslateCheckApiKey
  \/ TranslatePathExists
  \/ TranslateStat
  \/ TranslateCheckLanguage
  \/ TranslateReadFile
  \/ TranslateContent
  \/ TranslateEnsureDir
  \/ TranslateWriteFile
  \/ TranslateImagesExist
  \/ TranslateCopyImages
  \/ TranslateUpdatePaths
  \/ TranslateCommandCatch
  \/ TranslateCommandCompleted

SpecPipeline == InitPipeline /\ [][NextPipeline]_vars

\* processFile of the revision that embeds the payloads
NextEmbedFile ==
  \/ EmbedReadFile
  \/ EmbedFilesUpload
  \/ EmbedRetrieveFileDetails
  \/ EmbedFilesGetSignedUrl
  \/ EmbedOcrProcess
  \/ EmbedRespond
  \/ EmbedSkipPage
  \/ EmbedEnterPage
  \/ EmbedImage
  \/ ReturnToMap
  \/ EmbedJoinPages

SpecEmbedFile == InitEmbedFile /\ [][NextEmbedFile]_vars

\* the rewrite alone, on references of several shapes, and again on its
\* own output
NextRewriteShapes ==
  \/ SaveImage
  \/ SaveImageFails
  \/ ReturnDirect
  \/ RewriteAgain

SpecRewriteShapes == InitRewriteShapes /\ [][NextRewriteShapes]_vars

\* two processFile calls interleaved at their awaits
NextTwoCalls ==
  \/ Switch
  \/ ReadFile
  \/ FilesUpload
  \/ FilesGetSignedUrl
  \/ OcrProcess
  \/ Validate
  \/ SkipPage
  \/ EnterPage
  \/ SaveImage
  \/ SaveImageFails
  \/ ReturnToMap
  \/ JoinPages

SpecTwoCalls == InitTwoCalls /\ [][NextTwoCalls]_vars

(***************************************************************************)
(* Properties: helpers                                                     *)
(***************************************************************************)
Pages == ocrResponse.pages

\* processFile has resolved
Resolved == pc = "done" /\ caller = "processFile"

\* the iterations of the rewrite loop made for page p in this run
PageLog(p) == SelectSeq(log, LAMBDA e : e.page = p)

\* the markdown the rewrite of page p came to: that of its last iteration,
\* or the page markdown when its dictionary was empty
PageRewritten(p) ==
  IF PageLog(p) = << >> THEN Pages[p].markdown
  ELSE PageLog(p)[Len(PageLog(p))].after

\* the pages with markdown, in page order
RECURSIVE PagesWithMarkdown(_)
PagesWithMarkdown(p) ==
  IF p > Len(Pages) THEN << >>
  ELSE (IF NoMarkdown(Pages[p]) THEN << >> ELSE <<p>>) \o PagesWithMarkdown(p + 1)

\* doc is the rewritten markdown of the pages ps, in that order, with "\n\n"
\* between two of them and nothing else
RECURSIVE IsPagesJoined(_, _)
IsPagesJoined(doc, ps) ==
  IF ps = << >> THEN doc = << >>
  ELSE LET first == PageRewritten(Head(ps)) IN
    /\ StartsWith(doc, first)
    /\ IF Len(ps) = 1 THEN doc = first
       ELSE /\ Len(doc) >= Len(first) + 2
            /\ doc[Len(first) + 1] = "\n"
            /\ doc[Len(first) + 2] = "\n"
            /\ IsPagesJoined(SubSeq(doc, Len(first) + 3, Len(doc)), Tail(ps))

HasLineBreak(text) == \E i \in 1..Len(text) : text[i] = "\n"

(***************************************************************************)
(* C1: link-mode processFile resolves with the rewritten markdown of       *)
(* exactly the pages that have markdown, in page order, joined by "\n\n";  *)
(* a page without markdown adds no character and no separator, and when no *)
(* page has markdown the call resolves with the empty string and does not  *)
(* reject.                                                                 *)
(***************************************************************************)
C1_JoinOfNonEmptyPages ==
  /\ Resolved =>
       /\ IsPagesJoined(returned, PagesWithMarkdown(1))
       /\ (PagesWithMarkdown(1) = << >> => returned = << >> /\ thrown = << >>)
  /\ (pc = "failed" /\ ocrResponse.pagesType = "array") => FALSE

\* a response of two pages, the first without markdown, the second with
C1_Witness ==
  /\ Resolved
  /\ Len(Pages) = 2
  /\ NoMarkdown(Pages[1])
  /\ ~NoMarkdown(Pages[2])
  /\ returned = PageRewritten(2)
  /\ returned # << >>

(***************************************************************************)
(* C2 as stated: for a response of N pages that all have markdown, the     *)
(* resolved document has exactly N-1 occurrences of "\n\n".                *)
(***************************************************************************)
AllPagesHaveMarkdown ==
  Len(Pages) >= 1 /\ \A p \in 1..Len(Pages) : ~NoMarkdown(Pages[p])

C2_ExactlyNMinus1Separators ==
  (Resolved /\ AllPagesHaveMarkdown) =>
    CountOccurrences(returned, <<"\n", "\n">>) = Len(Pages) - 1

(***************************************************************************)
(* C2 amended: for a response of N pages that all have markdown, the       *)
(* resolved document is the N rewritten pages in page order with exactly   *)
(* "\n\n" between two neighbours; it has exactly N-1 occurrences of "\n\n" *)
(* when no rewritten page contains a line break.                           *)
(***************************************************************************)
C2_PagesInOrderSeparated ==
  (Resolved /\ AllPagesHaveMarkdown) =>
    /\ PagesWithMarkdown(1) = [p \in 1..Len(Pages) |-> p]
    /\ IsPagesJoined(returned, [p \in 1..Len(Pages) |-> p])
    /\ (\A p \in 1..Len(Pages) : ~HasLineBreak(PageRewritten(p)))
         => CountOccurrences(returned, <<"\n", "\n">>) = Len(Pages) - 1

\* two pages with markdown and no line break: one separator
C2_Witness ==
  /\ Resolved
  /\ Len(Pages) = 2
  /\ AllPagesHaveMarkdown
  /\ \A p \in 1..2 : ~HasLineBreak(PageRewritten(p))
  /\ PageRewritten(1) # PageRewritten(2)
  /\ CountOccurrences(returned, <<"\n", "\n">>) = 1

(***************************************************************************)
(* C3: whenever the OCR response is missing, has no pages field, has pages *)
(* that is not an array, or has an empty pages array, processFile rejects  *)
(* with the invalid-response error, no page is processed and no image file *)
(* is written.                                                             *)
(***************************************************************************)
MalformedResponse(r) ==
  \/ r.type = "null"
  \/ r.type = "object" /\ r.pagesType # "array"
  \/ r.type = "object" /\ r.pagesType = "array" /\ r.pages = << >>

C3_MalformedResponseRejected ==
  (MalformedResponse(ocrResponse) /\ pc # "validate") =>
    /\ pc = "failed"
    /\ thrown = <<ErrorPrefix, "Invalid OCR response from Mistral API">>
    /\ log = << >>
    /\ files = NoFiles

(***************************************************************************)
(* Properties of the rewrite: helpers                                      *)
(***************************************************************************)
\* the rewrite has returned to a direct caller
Returned == pc = "done" /\ caller = "direct"

\* the iteration of the loop made for the id, if any
IterationsOf(id) == { i \in 1..Len(log) : log[i].imgId = id }

NoIterationFailed == \A i \in 1..Len(log) : log[i].ok

\* <basename of the directory>/<file name> of a written path
RelativeOf(path) == path[Len(path) - 1] \o <<"/">> \o path[Len(path)]

\* every occurrence of the literal lit in s, left to right, replaced by with
RECURSIVE LiteralReplaceAll(_, _, _)
LiteralReplaceAll(s, lit, with) ==
  LET i == IndexOfFrom(s, lit, 1) IN
    IF i = 0 THEN s
    ELSE SubSeq(s, 1, i - 1) \o with
           \o LiteralReplaceAll(SubSeq(s, i + Len(lit), Len(s)), lit, with)

\* the file names of the ids, written out
NameOfI1  == <<"i","m","a","g","e","-","6","9","3","1",".","p","n","g">>
NameOfI10 == <<"i","m","a","g","e","-","6","9","3","1","3","0",".","p","n","g">>
NameOfAbc == <<"i","m","a","g","e","-","6","1","6","2","6","3",".","p","n","g">>

(***************************************************************************)
(* C4: when the page markdown contains ![abc](abc) and the images hold the *)
(* id abc, whose image is decoded and written, the link-mode rewrite       *)
(* returns markdown containing                                             *)
(* ![abc](<basename(imagesDir)>/image-<hash(abc)>.png) and the file        *)
(* <imagesDir>/image-<hash(abc)>.png holds the decoded payload: a payload  *)
(* that starts with data: is decoded from the part after its prefix        *)
(* data:...;base64, and any other payload is decoded whole.  Both "QUJD"   *)
(* and "data:image/png;base64,QUJD" are the bytes 65 66 67.                *)
(***************************************************************************)
AbcSaved == \E i \in IterationsOf(Abc) : log[i].ok

C4_AbcLinkedAndWritten ==
  (Returned /\ mode = "link" /\ Includes(markdown, ImageRef(Abc, Abc)) /\ AbcSaved) =>
    /\ Includes(returned,
                ImageRef(Abc, <<"d","-","i","m","a","g","e","s","/">> \o NameOfAbc))
    /\ << <<"o","u","t">>, <<"d","-","i","m","a","g","e","s">>, NameOfAbc >>
         \in DOMAIN files
    /\ files[<< <<"o","u","t">>, <<"d","-","i","m","a","g","e","s">>, NameOfAbc >>]
         = <<65, 66, 67>>

\* abc comes with a data: payload, after another image, and is linked
C4_Witness ==
  /\ Returned
  /\ mode = "link"
  /\ Includes(markdown, ImageRef(Abc, Abc))
  /\ \E i \in IterationsOf(Abc) :
       log[i].ok /\ i > 1 /\ StartsWith(log[i].base64Data, DataPrefix)
  /\ Includes(returned,
              ImageRef(Abc, <<"d","-","i","m","a","g","e","s","/">> \o NameOfAbc))

(***************************************************************************)
(* C5: when decoding or writing an image of a page fails in link mode,     *)
(* processFile still resolves: the loop goes on to every other image of    *)
(* the page, each of which, unless it fails too, is written and has its    *)
(* references rewritten, the later pages are processed, and the            *)
(* placeholder ![id](id) of the failed image is left as it was.            *)
(***************************************************************************)
\* the page markdown with the references of the saved images of the page
\* replaced, one image after the other
RECURSIVE RewrittenBySaved(_, _)
RewrittenBySaved(text, iterations) ==
  IF iterations = << >> THEN text
  ELSE LET e == Head(iterations) IN
    RewrittenBySaved(
      IF e.ok THEN LiteralReplaceAll(text, ImageRef(e.imgId, e.imgId),
                                     ImageRef(e.imgId, RelativeOf(e.path)))
      ELSE text,
      Tail(iterations))

C5_ImageFailureIsLocal ==
  /\ pc = "failed" => log = << >> /\ run = 1
  /\ Resolved =>
       \A p \in 1..Len(Pages) :
         ~NoMarkdown(Pages[p]) =>
           /\ [i \in 1..Len(PageLog(p)) |-> PageLog(p)[i].imgId]
                = [i \in 1..Len(PageImageData(Pages[p])) |-> PageImageData(Pages[p])[i][1]]
           /\ processedMarkdowns[p] = RewrittenBySaved(Pages[p].markdown, PageLog(p))
           /\ \A i \in 1..Len(PageLog(p)) :
                LET e == PageLog(p)[i] IN
                  IF e.ok THEN e.path \in DOMAIN files
                  ELSE CountOccurrences(processedMarkdowns[p], ImageRef(e.imgId, e.imgId))
                         = CountOccurrences(Pages[p].markdown, ImageRef(e.imgId, e.imgId))

\* on page 1 the first image fails and the second is saved and linked; page 2
\* is processed and its image saved
C5_Witness ==
  /\ Resolved
  /\ Len(Pages) = 2
  /\ Len(PageLog(1)) = 2
  /\ ~PageLog(1)[1].ok
  /\ PageLog(1)[2].ok
  /\ Includes(Pages[1].markdown, ImageRef(PageLog(1)[1].imgId, PageLog(1)[1].imgId))
  /\ Includes(processedMarkdowns[1], ImageRef(PageLog(1)[1].imgId, PageLog(1)[1].imgId))
  /\ Includes(processedMarkdowns[1],
              ImageRef(PageLog(1)[2].imgId, RelativeOf(PageLog(1)[2].path)))
  /\ PageLog(2) # << >>
  /\ PageLog(2)[1].ok
  /\ returned # << >>

(***************************************************************************)
(* C6: for every image id of the page's mapping, ids with regular          *)
(* expression metacharacters or with '$' included, the link-mode rewrite   *)
(* replaces every occurrence of the literal text ![id](id) by exactly      *)
(* ![id](<relative path of the id's file>).                                *)
(***************************************************************************)
C6_EveryOccurrenceReplacedExactly ==
  \A i \in 1..Len(log) :
    (mode = "link" /\ log[i].ok) =>
      log[i].after = LiteralReplaceAll(log[i].before,
                                       ImageRef(log[i].imgId, log[i].imgId),
                                       ImageRef(log[i].imgId, RelativeOf(log[i].path)))

(***************************************************************************)
(* C7: the link-mode rewrite changes nothing outside the spans of the page *)
(* markdown that are ![id](id) for an id of the mapping: the text before,  *)
(* between and after those spans is passed through in place and in order,  *)
(* so markdown without such a span, the empty string included, is returned *)
(* unchanged.                                                              *)
(***************************************************************************)
\* the length of the span ![id](id), id in ids, that starts at index i of
\* text; 0 if none does
IsSpanAt(text, i, id) ==
  /\ i + Len(id) + Len(id) + 4 <= Len(text)
  /\ SubSeq(text, i, i + Len(id) + Len(id) + 4) = ImageRef(id, id)

SpanLenAt(text, i, ids) ==
  IF \E id \in ids : IsSpanAt(text, i, id)
    THEN Len(CHOOSE id \in ids : IsSpanAt(text, i, id)) * 2 + 5
    ELSE 0

\* the stretches of text outside the spans, in order: one more than spans
RECURSIVE OutsideSpans(_, _, _, _)
OutsideSpans(text, i, ids, stretch) ==
  IF i > Len(text) THEN <<stretch>>
  ELSE IF SpanLenAt(text, i, ids) > 0
    THEN <<stretch>> \o OutsideSpans(text, i + SpanLenAt(text, i, ids), ids, << >>)
  ELSE OutsideSpans(text, i + 1, ids, Append(stretch, text[i]))

\* out is the stretches in order, with something in the place of each span
RECURSIVE KeepsStretches(_, _)
KeepsStretches(out, stretches) ==
  IF Len(stretches) = 1 THEN out = stretches[1]
  ELSE /\ StartsWith(out, stretches[1])
       /\ \E k \in Len(stretches[1])..Len(out) :
            KeepsStretches(SubSeq(out, k + 1, Len(out)), Tail(stretches))

C7_OnlySpansChange ==
  (Returned /\ mode = "link") =>
    LET stretches == OutsideSpans(markdown, 1, Keys(entries), << >>) IN
      /\ KeepsStretches(returned, stretches)
      /\ Len(stretches) = 1 => returned = markdown

\* text, a reference of an id outside the mapping and a span: the span is
\* rewritten and the rest kept
C7_Witness ==
  /\ Returned
  /\ mode = "link"
  /\ Len(OutsideSpans(markdown, 1, Keys(entries), << >>)) = 2
  /\ OutsideSpans(markdown, 1, Keys(entries), << >>)[1] # << >>
  /\ returned # markdown
  /\ NoIterationFailed

(***************************************************************************)
(* C8: a reference ![xyz](xyz) whose id is no key of the page's images     *)
(* mapping is left unchanged by the rewrite, in link mode and in embed     *)
(* mode, and no file is written for it.                                    *)
(***************************************************************************)
DanglingIds == ImageIds \ Keys(entries)

C8_DanglingReferenceUntouched ==
  Returned =>
    \A x \in DanglingIds :
      /\ CountOccurrences(returned, ImageRef(x, x))
           = CountOccurrences(markdown, ImageRef(x, x))
      /\ \A path \in DOMAIN files :
           path[Len(path)] # imageFileName(md5hex(x))

(***************************************************************************)
(* C9: on a page with several distinct image ids, ids of which one is a    *)
(* prefix of another included, and no failing image, each ![id](id) gets   *)
(* the path of its own id and of no other, and the rewritten markdown is   *)
(* the same for every order in which the ids are processed.                *)
(***************************************************************************)
RelativePathOf(id) == basename(imagesDir) \o <<"/">> \o imageFileName(md5hex(id))

\* the rewrite of text for the entries of dict in the order given
RECURSIVE RewriteInOrder(_, _, _)
RewriteInOrder(text, dict, order) ==
  IF order = << >> THEN text
  ELSE RewriteInOrder(
         ReplaceReferences(text, dict[Head(order)][1],
                           RelativePathOf(dict[Head(order)][1])),
         dict, Tail(order))

Orders(n) ==
  { f \in [1..n -> 1..n] : \A i, j \in 1..n : i # j => f[i] # f[j] }

C9_IdsRewrittenIndependently ==
  (Returned /\ mode = "link" /\ NoIterationFailed) =>
    /\ \A j, k \in Keys(entries) :
         j # k => ~Includes(returned, ImageRef(j, RelativePathOf(k)))
    /\ \A j \in Keys(entries) :
         CountOccurrences(returned, <<"]", "(">> \o RelativePathOf(j) \o <<")">>)
           = CountOccurrences(markdown, ImageRef(j, j))
    /\ \A order \in Orders(Len(entries)) :
         RewriteInOrder(markdown, entries, order) = returned

\* i1 and i10 on one page, i10 processed first, both referenced
C9_Witness ==
  /\ Returned
  /\ mode = "link"
  /\ NoIterationFailed
  /\ Len(entries) = 2
  /\ entries[1][1] = I10
  /\ entries[2][1] = I1
  /\ returned = ImageRef(I1, <<"d","-","i","m","a","g","e","s","/">> \o NameOfI1)
                  \o ImageRef(I10, <<"d","-","i","m","a","g","e","s","/">> \o NameOfI10)

(***************************************************************************)
(* C10: the file name link mode gives an image depends on the image id     *)
(* alone, whatever the payload, the page, the images directory and the     *)
(* run; processing the same OCR response twice targets the same set of     *)
(* file paths and, the same images failing in both runs, resolves with the *)
(* same markdown.                                                          *)
(***************************************************************************)
ExpectedFileName(id) ==
  CASE id = I1  -> NameOfI1
    [] id = I10 -> NameOfI10
    [] id = Abc -> NameOfAbc

Outcomes(l) == [i \in 1..Len(l) |-> l[i].ok]

C10_FileNameFromIdOnly ==
  /\ \A i \in 1..Len(log) :
       log[i].path = Append(imagesDir, ExpectedFileName(log[i].imgId))
  /\ (Resolved /\ run = 2) =>
       /\ { firstRun.log[i].path : i \in 1..Len(firstRun.log) }
            = { log[i].path : i \in 1..Len(log) }
       /\ Outcomes(firstRun.log) = Outcomes(log) => returned = firstRun.markdown

\* the response has the id i1 on two pages with two payloads and has been
\* processed twice
C10_Witness ==
  /\ Resolved
  /\ run = 2
  /\ Len(log) >= 2
  /\ \E i, j \in 1..Len(log) :
       /\ log[i].imgId = log[j].imgId
       /\ log[i].page # log[j].page
       /\ log[i].base64Data # log[j].base64Data
       /\ log[i].ok
       /\ log[j].ok
  /\ returned = firstRun.markdown
  /\ returned # << >>

(***************************************************************************)
(* C11: one processFile call makes files.upload, files.getSignedUrl and    *)
(* ocr.process at most once each, in that order, and makes none of them    *)
(* again; when one of them rejects no later one is made, no page is        *)
(* processed, no image is written, and the call rejects with the message   *)
(* of the failure behind 'Failed to process PDF with Mistral OCR API: '.   *)
(***************************************************************************)
ApiOrder == <<"fs.readFile", "files.upload", "files.getSignedUrl", "ocr.process">>

\* an awaited call rejected: processFile failed before it had a response
ApiCallFailed == pc = "failed" /\ ocrResponse = NoResponse

C11_CallsOnceInOrder ==
  /\ Len(calls) <= Len(ApiOrder)
  /\ calls = SubSeq(ApiOrder, 1, Len(calls))
  /\ ApiCallFailed =>
       /\ calls # << >>
       /\ thrown = <<ErrorPrefix, calls[Len(calls)] \o " failed">>
       /\ pageIdx = 0
       /\ processedMarkdowns = << >>
       /\ log = << >>
       /\ files = NoFiles
       /\ returned = << >>

EmbeddedTarget(payload) ==
  <<"]", "(">>
    \o (IF Len(payload) >= 5 /\ SubSeq(payload, 1, 5) = <<"d","a","t","a",":">>
          THEN payload
          ELSE <<"d","a","t","a",":","i","m","a","g","e","/","p","n","g",";",
                 "b","a","s","e","6","4",",">> \o payload)
    \o <<")">>

\* the iterations of the embed loop that met a placeholder of their id
EmbeddedIterations ==
  { i \in 1..Len(log) :
      mode = "embed" /\ Includes(log[i].before, ImageRef(log[i].imgId, log[i].imgId)) }

C20_PayloadEmbeddedOnce ==
  /\ \A i \in EmbeddedIterations :
       Includes(log[i].after, EmbeddedTarget(log[i].base64Data))
  /\ mode = "embed" =>
       \A i \in 1..Len(log) :
         ~Includes(log[i].after, <<",","d","a","t","a",":">>)

\* a payload that is a data URI already, and one that is not, both placed
C20_Witness ==
  /\ pc = "done"
  /\ \E i, j \in EmbeddedIterations :
       /\ StartsWith(log[i].base64Data, DataPrefix)
       /\ ~StartsWith(log[j].base64Data, DataPrefix)
       /\ Includes(returned, EmbeddedTarget(log[i].base64Data))

(***************************************************************************)
(* C13: when processFile rejects, processFiles rejects with                *)
(* 'Failed to process PDF <input>: <message of the cause>', the output     *)
(* file is not written, and the process command reports the error and      *)
(* exits with code 1.                                                      *)
(***************************************************************************)
\* the entries of fsCalls of the given kinds, in order
CallsOf(kinds) == SelectSeq(fsCalls, LAMBDA e : e[1] \in kinds)

C13_ProcessFileFailureReported ==
  pc = "failed" =>
    /\ cliPc \in {"awaitProcessFile", "rejected", "exited"}
    /\ outFiles = NoFiles
    /\ CallsOf({"writeFile"}) = << >>
    /\ cliPc \in {"rejected", "exited"} =>
         rejected = <<"Failed to process PDF ", input, ": ", thrown>>
    /\ cliPc = "rejected" => exitCode = -1
    /\ cliPc = "exited" =>
         /\ command = "process"
         /\ exitCode = 1
         /\ fsCalls[Len(fsCalls)] = <<"console.error", rejected>>

\* ocr.process rejected and the command has exited
C13_Witness ==
  /\ pc = "failed"
  /\ thrown = <<ErrorPrefix, "ocr.process failed">>
  /\ cliPc = "exited"
  /\ exitCode = 1

(***************************************************************************)
(* C14: processFiles rejects when nothing is at the input path and when    *)
(* what is there is no regular file; in both cases no images directory is  *)
(* created, processFile is not called and no output file is written.       *)
(***************************************************************************)
\* processFiles is past its checks of the input
PastInputChecks ==
  /\ CallsOf({"pathExists"}) # << >>
  /\ cliPc \notin {"action", "pathExists", "stat"}

C14_BadInputRejectedEarly ==
  (inputKind # "file" /\ PastInputChecks) =>
    /\ cliPc \in {"rejected", "exited"}
    /\ rejected = IF inputKind = "missing"
                    THEN <<"Input file does not exist: ", input>>
                    ELSE <<"Input must be a file, not a directory: ", input>>
    /\ CallsOf({"ensureDir", "processFile", "writeFile"}) = << >>
    /\ pc = "idle"
    /\ calls = << >>
    /\ files = NoFiles
    /\ outFiles = NoFiles

\* a directory was given as input
C14_Witness ==
  /\ inputKind = "directory"
  /\ cliPc = "rejected"
  /\ CallsOf({"stat"}) # << >>

(***************************************************************************)
(* C15: on a successful run processFiles first ensures the directory       *)
(* <dirname(output)>/<input base name without extension>-images, then      *)
(* calls processFile with the input and that directory, and only then      *)
(* writes the output file, once, with the string processFile resolved with.*)
(***************************************************************************)
\* the name of the images directory of the inputs processFile accepts
ExpectedImagesName ==
  IF pathBasename(input) = <<"d",".","p","d","f">>
    THEN <<"d","-","i","m","a","g","e","s">>
    ELSE <<"e","-","i","m","a","g","e","s">>

ExpectedImagesDir == Append(SubSeq(output, 1, Len(output) - 1), ExpectedImagesName)

C15_EnsureThenProcessThenWrite ==
  cliPc \in {"resolved", "completed"} =>
    /\ pc = "done"
    /\ CallsOf({"ensureDir", "processFile", "writeFile"}) =
         << <<"ensureDir", ExpectedImagesDir>>,
            <<"processFile", input, ExpectedImagesDir>>,
            <<"ensureDir", SubSeq(output, 1, Len(output) - 1)>>,
            <<"writeFile", output, returned>> >>
    /\ imagesDir = ExpectedImagesDir
    /\ outFiles = (output :> returned)

\* a run on in/e.PDF that wrote images and the document
C15_Witness ==
  /\ cliPc = "completed"
  /\ pathBasename(input) = <<"e",".","P","D","F">>
  /\ files # NoFiles
  /\ returned # << >>
  /\ outFiles = (output :> returned)

(***************************************************************************)
(* C16: processFile rejects every path whose extension, compared without   *)
(* regard to case, is not .pdf with 'Only PDF files are supported', before *)
(* it reads the file or calls the API.                                     *)
(***************************************************************************)
PdfExtensions ==
  { <<".", p, d, f>> : p \in {"p", "P"}, d \in {"d", "D"}, f \in {"f", "F"} }

\* the base name of the path is <something>.pdf, in any case of the letters
HasPdfExtension(p) ==
  LET base == p[Len(p)] IN
    /\ Len(base) >= 5
    /\ SubSeq(base, Len(base) - 3, Len(base)) \in PdfExtensions

RejectedAsUnsupported ==
  /\ pc = "failed"
  /\ Len(thrown) = 3
  /\ thrown[2] = "Only PDF files are supported. Received: "

C16_OnlyPdfAccepted ==
  pc \notin {"idle", "check"} =>
    IF HasPdfExtension(filePath)
      THEN ~RejectedAsUnsupported
      ELSE /\ RejectedAsUnsupported
           /\ calls = << >>
           /\ files = NoFiles
           /\ ocrResponse = NoResponse

\* in/d.pdf.md was rejected
C16_Witness ==
  /\ RejectedAsUnsupported
  /\ pathBasename(filePath) = <<"d",".","p","d","f",".","m","d">>
  /\ cliPc = "rejected"

(***************************************************************************)
(* C17: translateFiles reads the input, calls translateContent and writes  *)
(* the output only after it has found that the input exists, is a file and *)
(* that the language, compared without regard to case, is one of french,   *)
(* german, spanish, russian; when one of these checks fails it rejects     *)
(* without reading or translating, and when a check or translateContent    *)
(* fails fs.writeFile is never called.                                     *)
(***************************************************************************)
\* lang is one of the four names, in any case of its letters
IsLanguageName(lang) ==
  \E name \in { <<"f","r","e","n","c","h">>, <<"g","e","r","m","a","n">>,
                <<"s","p","a","n","i","s","h">>, <<"r","u","s","s","i","a","n">> } :
    /\ Len(lang) = Len(name)
    /\ \A i \in 1..Len(name) :
         \/ lang[i] = name[i]
         \/ \E k \in 1..26 : LowerCase[k] = name[i] /\ UpperCase[k] = lang[i]

\* translateFiles was called and is past its three checks
PastTranslateChecks ==
  /\ CallsOf({"pathExists"}) # << >>
  /\ cliPc \notin {"translateAction", "tPathExists", "tStat", "tLanguage"}

\* the message a failed check rejects with
FailedCheckMessage ==
  IF inputKind = "missing" THEN <<"Input file does not exist: ", input>>
  ELSE IF inputKind = "directory"
    THEN <<"Input must be a file, not a directory: ", input>>
  ELSE <<"Unsupported language: ", language,
         ". Supported languages are: french, german, spanish, russian">>

TranslateContentFailed ==
  /\ Len(rejected) = 4
  /\ rejected[1] = "Failed to translate file "
  /\ rejected[4][1] = "Failed to translate content: "

NameWithoutMd(p) == SubSeq(p[Len(p)], 1, Len(p[Len(p)]) - 3)

ImagesFolderName(p) == NameWithoutMd(p) \o <<"-","i","m","a","g","e","s">>

TranslateSucceeded == cliPc \in {"resolved", "completed"} /\ command \in {"translate", "translateFiles"}

\* the folder was copied, and to the right place
FolderCopied ==
  CallsOf({"copy"}) =
    << <<"copy", Append(SubSeq(input, 1, Len(input) - 1), ImagesFolderName(input)),
                 Append(SubSeq(output, 1, Len(output) - 1), ImagesFolderName(output))>> >>

C18_ImagesCopiedPathsUpdated ==
  TranslateSucceeded =>
    IF imagesDirExists
      THEN /\ FolderCopied
           /\ outFiles[output] =
                IF NameWithoutMd(input) # NameWithoutMd(output)
                  THEN LiteralReplaceAll(translatedContent,
                                         ImagesFolderName(input) \o <<"/">>,
                                         ImagesFolderName(output) \o <<"/">>)
                  ELSE translatedContent
      ELSE /\ CallsOf({"copy"}) = << >>
           /\ outFiles[output] = translatedContent

\* the same statement for input names in which no character is regular
\* expression syntax
C18_HoldsForPlainNames ==
  (\A i \in 1..Len(NameWithoutMd(input)) : NameWithoutMd(input)[i] \notin RegExpMeta)
    => C18_ImagesCopiedPathsUpdated

(***************************************************************************)
(* C19: after any sequence of setLogLevel calls on the shared logger, a    *)
(* call of debug, info, warn or error emits output if and only if the      *)
(* current level is at most the severity of the method in the order        *)
(* DEBUG < INFO < WARN < ERROR < NONE; the level is INFO until it is first *)
(* set, and at NONE no method emits anything.                              *)
(***************************************************************************)
SeverityOrder == <<"debug", "info", "warn", "error", "none">>

\* the place of a method in the order, counted from 0
SeverityOf(method) == (CHOOSE k \in 1..5 : SeverityOrder[k] = method) - 1

\* the level in force at call i: that of the last setLogLevel before it,
\* INFO when there was none
LevelAt(i) ==
  LET sets == { j \in 1..(i - 1) : emitted[j].method = "setLogLevel" } IN
    IF sets = {} THEN SeverityOf("info")
    ELSE emitted[CHOOSE j \in sets : \A k \in sets : k <= j].argument

C19_EmitsIffLevelAtMostSeverity ==
  /\ \A i \in 1..Len(emitted) :
       emitted[i].method # "setLogLevel" =>
         /\ (emitted[i].out # "none") <=> (LevelAt(i) <= SeverityOf(emitted[i].method))
         /\ LevelAt(i) = SeverityOf("none") => emitted[i].out = "none"
  /\ logLevel = LevelAt(Len(emitted) + 1)

\* warn is emitted at level WARN and info is not, after debug was silent at
\* the first level
C19_Witness ==
  /\ Len(emitted) = 3
  /\ emitted[1] = LoggerCall("debug", 0, "none")
  /\ emitted[2] = LoggerCall("setLogLevel", 2, "none")
  /\ emitted[3] = LoggerCall("warn", 2, "console.warn")

(***************************************************************************)
(* C12: two processFile calls for different documents and different        *)
(* images directories, interleaved in any way at their awaits, each return *)
(* the markdown and leave the files they would when run one after the      *)
(* other.                                                                  *)
(***************************************************************************)
\* a call is over
Over(p) == p \in {"done", "failed"}

\* the iterations a call made for page p
CallIterations(iterations, p) == SelectSeq(iterations, LAMBDA e : e.page = p)

\* the rewrite of a page by a call that runs alone, in which the images
\* fail that failed in iterations
RECURSIVE AloneRewrite(_, _, _, _)
AloneRewrite(md, dict, iterations, dir) ==
  IF dict = << >> \/ iterations = << >> THEN md
  ELSE LET imgId   == Head(dict)[1]
           relPath == relativeImagePath(dir, imageFileName(hash(imgId, Head(dict)[2])))
       IN AloneRewrite(IF Head(iterations).ok
                         THEN ReplaceReferences(md, imgId, relPath) ELSE md,
                       Tail(dict), Tail(iterations), dir)

\* the markdown a call that runs alone returns for a response
AloneDocument(response, iterations, dir) ==
  Join(FilterBoolean(
         [p \in 1..Len(response.pages) |->
            IF NoMarkdown(response.pages[p]) THEN << >>
            ELSE AloneRewrite(response.pages[p].markdown,
                              PageImageData(response.pages[p]),
                              CallIterations(iterations, p), dir)]),
       Separator)

\* the files a call that runs alone leaves, written over before
RECURSIVE AloneFiles(_, _)
AloneFiles(iterations, before) ==
  IF iterations = << >> THEN before
  ELSE LET e == Head(iterations) IN
    AloneFiles(Tail(iterations),
               IF e.ok THEN (e.path :> imageBuffer(e.base64Data)) @@ before
               ELSE before)

C12_InterleavedAsOneAfterTheOther ==
  (other.pc # "none" /\ Over(pc) /\ Over(other.pc)) =>
    /\ pc = "done" => returned = AloneDocument(ocrResponse, log, imagesDir)
    /\ other.pc = "done" =>
         other.returned = AloneDocument(other.ocrResponse, other.log, other.imagesDir)
    /\ files = AloneFiles(other.log, AloneFiles(log, NoFiles))
    /\ files = AloneFiles(log, AloneFiles(other.log, NoFiles))

\* both calls have resolved, each has saved the image i1 of its document
\* under the same file name, and the two files hold the two payloads
C12_Witness ==
  /\ other.pc = "done"
  /\ pc = "done"
  /\ imagesDir = DirDoc
  /\ other.imagesDir = DirOther
  /\ \E e \in 1..Len(log) : \E f \in 1..Len(other.log) :
       /\ log[e].ok
       /\ other.log[f].ok
       /\ log[e].imgId = I1
       /\ other.log[f].imgId = I1
       /\ log[e].base64Data # other.log[f].base64Data
       /\ files[log[e].path] # files[other.log[f].path]
       /\ returned # other.returned

(***************************************************************************)
(* C21: in embed mode, pages with empty or absent markdown contribute no   *)
(* character and no separator to the document processFile returns.         *)
(***************************************************************************)
\* processFile of the embed revision has resolved from a page list
EmbedResolvedFromPages ==
  /\ mode = "embed"
  /\ caller = "processFile"
  /\ pc = "done"
  /\ HasPageList(ocrResponse)

C21_EmbedEmptyPagesDropped ==
  EmbedResolvedFromPages =>
    returned = Join(SelectSeq(processedMarkdowns, LAMBDA m : m # << >>), Separator)

(***************************************************************************)
(* C22: embed-mode processFile aborts with an error, returns no output and *)
(* writes no file when the OCR response lacks a valid page list.           *)
(***************************************************************************)
\* ocr.process has resolved with a response that has no pages array
EmbedMalformedResponse ==
  /\ mode = "embed"
  /\ caller = "processFile"
  /\ ocrResponse.type # "none"
  /\ ~HasPageList(ocrResponse)

C22_EmbedMalformedResponseAborts ==
  EmbedMalformedResponse =>
    /\ pc # "done"
    /\ returned = << >>
    /\ files = NoFiles

(***************************************************************************)
(* C23: in embed mode every occurrence of a placeholder of a known id, in  *)
(* each of the shapes ![id](id), ![Image id](id), ![Figure id](id) and     *)
(* ![](id), is rewritten to exactly ![id](<data URI of id>), however many  *)
(* times the shape occurs on the page.                                     *)
(***************************************************************************)
\* the four shapes of a placeholder of id
PlaceholderShapes(id) ==
  { ImageRef(id, id),
    ImageRef(<<"I","m","a","g","e"," ">> \o id, id),
    ImageRef(<<"F","i","g","u","r","e"," ">> \o id, id),
    ImageRef(<< >>, id) }

\* the placeholders of id in s, of every shape
RECURSIVE CountShapes(_, _)
CountShapes(s, shapes) ==
  IF shapes = {} THEN 0
  ELSE LET shape == CHOOSE x \in shapes : TRUE IN
    CountOccurrences(s, shape) + CountShapes(s, shapes \ {shape})

C23_EmbedEveryShapeRewritten ==
  (Returned /\ mode = "embed") =>
    \A i \in 1..Len(entries) :
      LET id  == entries[i][1]
          uri == formattedBase64(entries[i][2]) IN
        /\ CountShapes(returned, PlaceholderShapes(id)) = 0
        /\ CountOccurrences(returned, ImageRef(id, uri))
             = CountShapes(markdown, PlaceholderShapes(id))

\* the statement holds for the pages on which a shape other than ![id](id)
\* occurs once at most, for ids without regular-expression or replacement
\* characters
C23_HoldsForOneOccurrence ==
  (/\ Returned
   /\ mode = "embed"
   /\ \A i \in 1..Len(entries) :
        /\ entries[i][1] \in {I1, Abc}
        /\ CountShapes(markdown, PlaceholderShapes(entries[i][1]))
             - CountOccurrences(markdown, ImageRef(entries[i][1], entries[i][1])) <= 1
        /\ \A k \in 1..Len(entries) : k # i =>
             ~Includes(formattedBase64(entries[k][2]), entries[i][1]))
    => \A i \in 1..Len(entries) :
         LET id  == entries[i][1]
             uri == formattedBase64(entries[i][2]) IN
           /\ CountShapes(returned, PlaceholderShapes(id)) = 0
           /\ CountOccurrences(returned, ImageRef(id, uri))
                = CountShapes(markdown, PlaceholderShapes(id))

(***************************************************************************)
(* C24: in link mode a reference is rewritten to a file path only after    *)
(* that file has been written: at every point of the rewrite and in the    *)
(* returned markdown there is no link to image-<hash(id)>.png for an id    *)
(* whose decode or write failed.                                           *)
(***************************************************************************)
\* the path a link to the image of id has in the markdown
LinkTargetOf(id) ==
  relativeImagePath(imagesDir, imageFileName(md5hex(id)))

\* the iterations that failed
FailedIterations == { i \in 1..Len(log) : ~log[i].ok }

\* as stated, over the whole document: the returned markdown has no link to
\* the file name of an id that failed on some page
C24_NoLinkForFailedIdInDocument ==
  (Resolved /\ mode = "link") =>
    \A i \in FailedIterations : ~Includes(returned, LinkTargetOf(log[i].imgId))

\* within the page on which the image failed: no state of the rewrite of
\* that page, and not its result, has a link to the file name of the id
C24_NoLinkForFailedIdOnItsPage ==
  mode = "link" =>
    \A i \in FailedIterations :
      /\ \A k \in 1..Len(log) :
           log[k].page = log[i].page => ~Includes(log[k].after, LinkTargetOf(log[i].imgId))
      /\ (pc = "loop" /\ pageIdx = log[i].page)
           => ~Includes(result, LinkTargetOf(log[i].imgId))
      /\ (caller = "processFile" /\ log[i].page <= Len(processedMarkdowns))
           => ~Includes(processedMarkdowns[log[i].page], LinkTargetOf(log[i].imgId))
      /\ (Resolved /\ \A k \in 1..Len(log) : log[k].ok => log[k].imgId # log[i].imgId)
           => ~Includes(returned, LinkTargetOf(log[i].imgId))

\* processFile has resolved; an image whose placeholder is on its page
\* failed and the placeholder is still in the document, next to a link of
\* an image that was written
C24_Witness ==
  /\ Resolved
  /\ mode = "link"
  /\ \E i \in FailedIterations :
       /\ Includes(Pages[log[i].page].markdown, ImageRef(log[i].imgId, log[i].imgId))
       /\ Includes(returned, ImageRef(log[i].imgId, log[i].imgId))
       /\ ~Includes(returned, LinkTargetOf(log[i].imgId))
  /\ \E k \in 1..Len(log) :
       log[k].ok /\ Includes(returned, LinkTargetOf(log[k].imgId))

(***************************************************************************)
(* C25: when the link-mode rewrite of a document finishes without a write  *)
(* failure, every rewritten link in the output points to a file that holds *)
(* the decoded payload which the link's own page supplied for that id,     *)
(* also when the same id is on several pages with different payloads.      *)
(***************************************************************************)
C25_LinkedFileHoldsPagePayload ==
  (Resolved /\ mode = "link" /\ NoIterationFailed) =>
    \A i \in 1..Len(log) :
      Includes(processedMarkdowns[log[i].page],
               ImageRef(log[i].imgId, LinkTargetOf(log[i].imgId)))
        => /\ log[i].path \in DOMAIN files
           /\ files[log[i].path] = imageBuffer(log[i].base64Data)

\* the statement holds for the documents in which no id has two payloads
C25_HoldsForOnePayloadPerId ==
  (/\ Resolved
   /\ mode = "link"
   /\ NoIterationFailed
   /\ \A i, k \in 1..Len(log) :
        log[i].imgId = log[k].imgId => log[i].base64Data = log[k].base64Data) =>
    \A i \in 1..Len(log) :
      Includes(processedMarkdowns[log[i].page],
               ImageRef(log[i].imgId, LinkTargetOf(log[i].imgId)))
        => /\ log[i].path \in DOMAIN files
           /\ files[log[i].path] = imageBuffer(log[i].base64Data)

(***************************************************************************)
(* C26: in link mode, absent write failures, the image files written are   *)
(* exactly those of the images that have a non-empty id and a non-empty    *)
(* payload on a page with non-empty markdown: images of a page with empty  *)
(* markdown are never written, an image no placeholder references is.      *)
(***************************************************************************)
\* the images of page p that have an id and a payload
ImagesToWrite(p) ==
  IF NoMarkdown(Pages[p]) \/ Pages[p].imagesType # "array" THEN {}
  ELSE { Pages[p].images[k] : k \in { j \in 1..Len(Pages[p].images) :
           /\ Pages[p].images[j].id # << >>
           /\ Pages[p].images[j].imageBase64 # << >> } }

ExpectedFiles ==
  UNION { { Append(imagesDir, imageFileName(md5hex(img.id))) : img \in ImagesToWrite(p) }
          : p \in 1..Len(Pages) }

TranslateRejected ==
  /\ command \in {"translate", "translateFiles"}
  /\ cliPc \in {"rejected", "exited"}

C27_RejectedLeavesOutputUntouched ==
  TranslateRejected => output \notin DOMAIN outFiles

\* the statement holds for the rejections up to the first fs.writeFile
C27_HoldsBeforeFirstWrite ==
  (TranslateRejected /\ CallsOf({"writeFile"}) = << >>) => outFiles = NoFiles

(***************************************************************************)
(* C28: after the process command has converted a PDF to a markdown file   *)
(* and the translate command has translated that file to a file in another *)
(* directory, every image link of the translated file resolves, relative   *)
(* to the directory of the translated file, to an existing image file,     *)
(* whatever the base names of the PDF, the markdown file and the           *)
(* translated file.                                                        *)
(***************************************************************************)
\* the targets of the links ](target) of a text
TargetsOf(text) ==
  { SubSeq(text, i + 2, j - 1) :
      <<i, j>> \in { ij \in (1..Len(text)) \X (1..Len(text)) :
                     /\ ij[1] + 1 < ij[2]
                     /\ text[ij[1]] = "]"
                     /\ text[ij[1] + 1] = "("
                     /\ text[ij[2]] = ")"
                     /\ \A k \in (ij[1] + 2)..(ij[2] - 1) : text[k] # ")" } }

\* the links into an images folder: <folder>/<file>
ImageLinks(text) == { t \in TargetsOf(text) : "/" \in Range(t) }

\* the file a link of a document in dir leads to
LinkedFile(dir, target) == dir \o Split(target, "/")

\* the translate command has translated the output of the process command
PipelineDone ==
  /\ command = "translate"
  /\ cliPc \in {"resolved", "completed"}
  /\ input \in DOMAIN outFiles

C28_TranslatedLinksResolve ==
  PipelineDone =>
    \A t \in ImageLinks(outFiles[output]) :
      LinkedFile(pathDirname(output), t) \in DOMAIN files

\* the statement holds when the markdown file has the base name of the PDF
C28_HoldsForEqualBaseNames ==
  (PipelineDone
     /\ pathBasenameExt(input, pathExtname(input))
          = pathBasenameExt(filePath, pathExtname(filePath))) =>
    \A t \in ImageLinks(outFiles[output]) :
      LinkedFile(pathDirname(output), t) \in DOMAIN files

(***************************************************************************)
(* C29: link mode rewrites only the references whose alt text and target   *)
(* are both exactly the id: a reference ![Image id](id), ![Figure id](id)  *)
(* or ![](id) of a known id is left unchanged in the output, although the  *)
(* image file of that id is written.                                       *)
(***************************************************************************)
\* the shapes of a reference of id whose alt text is not the id
OtherShapes(id) == PlaceholderShapes(id) \ { ImageRef(id, id) }

C29_OnlyExactReferencesRewritten ==
  (Returned /\ mode = "link") =>
    \A i \in 1..Len(log) :
      /\ \A shape \in OtherShapes(log[i].imgId) :
           CountOccurrences(returned, shape) = CountOccurrences(markdown, shape)
      /\ log[i].ok =>
           /\ log[i].path \in DOMAIN files
           /\ Includes(log[i].before, ImageRef(log[i].imgId, log[i].imgId))
                => log[i].after # log[i].before

\* the markdown holds ![i1](i1) and ![Image i1](i1) (or another shape); the
\* image of i1 is written, the first is rewritten and the second is kept
C29_Witness ==
  /\ Returned
  /\ mode = "link"
  /\ run = 1
  /\ \E i \in 1..Len(log) :
       /\ log[i].ok
       /\ log[i].imgId = I1
       /\ log[i].path \in DOMAIN files
       /\ Includes(markdown, ImageRef(I1, I1))
       /\ Includes(returned, ImageRef(I1, LinkTargetOf(I1)))
       /\ \E shape \in OtherShapes(I1) :
            Includes(markdown, shape) /\ Includes(returned, shape)

(***************************************************************************)
(* C30: the link-mode rewrite is idempotent: replaceImagesInMarkdown       *)
(* applied with the same images and imagesDir to its own output returns    *)
(* that output unchanged and writes the same files with the same contents. *)
(***************************************************************************)
\* the rewrite has been applied to its own output, the same images failing
RewrittenTwice ==
  /\ Returned
  /\ mode = "link"
  /\ run = 2
  /\ Outcomes(firstRun.log) = Outcomes(log)

C30_RewriteIdempotent ==
  RewrittenTwice =>
    /\ returned = firstRun.markdown
    /\ files = AloneFiles(firstRun.log, NoFiles)

\* the statement holds when no id of the images is a replacement pattern
C30_HoldsForPlainIds ==
  (RewrittenTwice /\ \A i \in 1..Len(entries) : entries[i][1] # DollarAmp) =>
    /\ returned = firstRun.markdown
    /\ files = AloneFiles(firstRun.log, NoFiles)

====
